---- MODULE Spec2Model ----
(***************************************************************************)
(* AIRE core: hypothesis generators, the six framing parsers, the MDL      *)
(* scorer and the recursive inference engine (InferenceEngine::infer).     *)
(*                                                                         *)
(* Bytes are naturals 0..255.  Rust indices are 0-based; At(data, i) reads *)
(* data[i].  A Rust Range a..b is the pair of fields start, end.           *)
(***************************************************************************)
EXTENDS Integers, Sequences, FiniteSets, TLC

\* ------------------------------------------------------------------ bounds
\* longest PDU of the exhaustive single-PDU inputs of the direct parser call
MaxLen == 3
\* most PDUs in a multi-PDU corpus of the direct parser call
MaxPdus == 2
\* longest constant payload of an engine datagram
MaxPayload == 8
\* largest max_depth below the default an engine is configured with
MaxDepthCfg == 2

\* ------------------------------------------------------------------ helpers
At(data, i) == data[i + 1]

Min(a, b) == IF a < b THEN a ELSE b

Max(a, b) == IF a > b THEN a ELSE b

\* data[a..b] of Rust: the bytes at 0-based positions a .. b-1
Slice(data, a, b) == SubSeq(data, a + 1, b)

RECURSIVE Concat(_)
Concat(seqs) == IF seqs = <<>> THEN <<>> ELSE Head(seqs) \o Concat(Tail(seqs))

RECURSIVE SumSeq(_)
SumSeq(s) == IF s = <<>> THEN 0 ELSE Head(s) + SumSeq(Tail(s))

\* ------------------------------------------------------------------ segment.rs
Seg(kind, name, start, end) == [kind |-> kind, name |-> name, start |-> start, end |-> end]

SegLen(s) == s.end - s.start

ParsedPduOf(segments, exceptions) == [segments |-> segments, exceptions |-> exceptions]

\* ------------------------------------------------------------------ hypothesis.rs
LengthPrefixBundle(offset, width, endian, includes_header) == [tag |-> "LengthPrefixBundle", offset |-> offset, width |-> width, endian |-> endian, includes_header |-> includes_header]

DelimiterBundle(pattern) == [tag |-> "DelimiterBundle", pattern |-> pattern]

FixedHeader(len) == [tag |-> "FixedHeader", len |-> len]

ExtensibleBitmap(start, cont_bit, stop_value, max_bytes) == [tag |-> "ExtensibleBitmap", start |-> start, cont_bit |-> cont_bit, stop_value |-> stop_value, max_bytes |-> max_bytes]

Tlv(tag_offset, tag_bytes, len_offset, len_rule, length_includes_header) == [tag |-> "Tlv", tag_offset |-> tag_offset, tag_bytes |-> tag_bytes, len_offset |-> len_offset, len_rule |-> len_rule, length_includes_header |-> length_includes_header]

VarintKeyWireType(key_max_bytes, allow_embedded) == [tag |-> "VarintKeyWireType", key_max_bytes |-> key_max_bytes, allow_embedded |-> allow_embedded]

\* ------------------------------------------------------------------ generators.rs
\* Each generator's propose(corpus); a corpus is a sequence of PDU byte strings
\* here (the generators read only is_empty() and items[0].len()).
Widths == <<1, 2, 4>>

Endians == <<"Little", "Big">>

LengthPrefixGenerator(pdus) ==
    IF pdus = <<>> THEN <<>>
    ELSE [i \in 1..30 |->
            LengthPrefixBundle((i - 1) \div 6, Widths[(((i - 1) \div 2) % 3) + 1],
                               Endians[((i - 1) % 2) + 1], FALSE)]

DelimiterPatterns == << <<0, 0>>, <<10>>, <<13, 10>>, <<255, 255>> >>

DelimiterGenerator(pdus) ==
    IF pdus = <<>> THEN <<>>
    ELSE [i \in 1..4 |-> DelimiterBundle(DelimiterPatterns[i])]

\* a proposal that starts at a header of one byte
FixedHeaderGeneratorFromOne(pdus) ==
    IF pdus = <<>> THEN <<>>
    ELSE [i \in 1..Min(32, Len(pdus[1])) |-> FixedHeader(i)]

FixedHeaderGenerator(pdus) ==
    IF pdus = <<>> THEN <<>>
    ELSE IF Len(pdus[1]) < 2 THEN <<>>
    ELSE [i \in 1..(Min(32, Len(pdus[1])) - 1) |-> FixedHeader(i + 1)]

ExtensibleBitmapGenerator(pdus) ==
    IF pdus = <<>> THEN <<>>
    ELSE [i \in 1..80 |->
            ExtensibleBitmap((i - 1) \div 16, ((i - 1) \div 2) % 8, (i - 1) % 2, 8)]

LenRules == <<"DefiniteShort", "DefiniteMedium", "DefiniteLong">>

\* tag_offset 0..=2, tag_bytes 1..=3, len_offset_delta 0..=1, three rules, two flags
TlvGenerator(pdus) ==
    [i \in 1..108 |->
        LET tag_offset == (i - 1) \div 36
            tag_bytes == (((i - 1) \div 12) % 3) + 1
            delta == ((i - 1) \div 6) % 2
        IN Tlv(tag_offset, tag_bytes, tag_offset + tag_bytes + delta,
               LenRules[(((i - 1) \div 2) % 3) + 1], (i - 1) % 2 = 1)]

VarintGenerator(pdus) ==
    << VarintKeyWireType(5, FALSE), VarintKeyWireType(5, TRUE), VarintKeyWireType(10, FALSE) >>

Propose(g, pdus) ==
    CASE g = "LengthPrefixGenerator" -> LengthPrefixGenerator(pdus)
      [] g = "DelimiterGenerator" -> DelimiterGenerator(pdus)
      [] g = "FixedHeaderGenerator" -> FixedHeaderGenerator(pdus)
      [] g = "ExtensibleBitmapGenerator" -> ExtensibleBitmapGenerator(pdus)
      [] g = "TlvGenerator" -> TlvGenerator(pdus)
      [] g = "VarintGenerator" -> VarintGenerator(pdus)

\* ------------------------------------------------------------------ parsers.rs
\* Exception strings are kept as the word sequence of the format string's text
\* (the formatted numbers are dropped), so that str::contains is computed.
ExcMessageExtends == <<"Message", "extends", "beyond", "PDU", "at", "pos">>

ExcBitmapExtends == <<"Bitmap", "extends", "beyond", "PDU">>

ExcIncompleteTag == <<"Incomplete", "tag">>

ExcIncompleteLength == <<"Incomplete", "length">>

ExcEocNotFound == <<"EOC", "not", "found">>

ExcLengthInvalid == <<"Length", "field", "appears", "invalid", ":", "len=", "remaining=", "stopping", "TLV", "parsing">>

ExcLengthTooSmall == <<"Length", "too", "small", "to", "include", "header", ":", "len=", "header_size=">>

ExcValueExtends == <<"Value", "extends", "beyond", "PDU", ":", "value_start=", "actual_len=", "data_len=", "remaining=">>

ExcLengthTooLarge == <<"Length", "too", "large", "for", "remaining", "data", ":", "actual_len=", "remaining=">>

ExcVarintKeyTooLong == <<"Varint", "key", "too", "long">>

ExcIncompleteFixed64 == <<"Incomplete", "fixed64">>

ExcIncompleteFixed32 == <<"Incomplete", "fixed32">>

ExcLengthDelimitedExtends == <<"Length-delimited", "value", "extends", "beyond", "PDU">>

ExcUnknownWireType == <<"Unknown", "wire", "type", ":">>

\* u32::from_be_bytes([b0, b1, b2, b3]) as usize.  Values of 2^30 and more are
\* kept as 2^30: every use compares the value with quantities below 2^30.
U32FromBe(b0, b1, b2, b3) ==
    IF b0 >= 64 THEN 64 * 16777216
    ELSE ((b0 * 256 + b1) * 256 + b2) * 256 + b3

U16FromBe(b0, b1) == b0 * 256 + b1

\* a length read that takes every field as big-endian
ReadLengthBigEndian(data, len_pos, width, endian) ==
    CASE width = 1 -> At(data, len_pos)
      [] width = 2 -> U16FromBe(At(data, len_pos), At(data, len_pos + 1))
      [] width = 4 ->
            U32FromBe(At(data, len_pos), At(data, len_pos + 1), At(data, len_pos + 2), At(data, len_pos + 3))

\* parsers.rs 49-73: the length field of a LengthPrefixBundle
ReadLength(data, len_pos, width, endian) ==
    CASE width = 1 -> At(data, len_pos)
      [] width = 2 /\ endian = "Little" -> U16FromBe(At(data, len_pos + 1), At(data, len_pos))
      [] width = 2 /\ endian = "Big" -> U16FromBe(At(data, len_pos), At(data, len_pos + 1))
      [] width = 4 /\ endian = "Little" ->
            U32FromBe(At(data, len_pos + 3), At(data, len_pos + 2), At(data, len_pos + 1), At(data, len_pos))
      [] width = 4 /\ endian = "Big" ->
            U32FromBe(At(data, len_pos), At(data, len_pos + 1), At(data, len_pos + 2), At(data, len_pos + 3))

\* segments pushed for one message once its bounds are known (parsers.rs 87-103)
LengthPrefixMessage(data, pos, header_end, message_end) ==
    (IF pos < header_end THEN <<Seg("Field", "length", pos, header_end)>> ELSE <<>>)
    \o (IF header_end < message_end THEN <<Seg("Sdu", "", header_end, message_end)>> ELSE <<>>)
    \o (IF message_end < Len(data) THEN <<Seg("MessageBoundary", "", message_end, message_end)>> ELSE <<>>)

\* A pass through the body of a parser's while loop from position pos: stop is
\* TRUE for a break, pos is the position the next pass starts at, segments and
\* exceptions are what the pass pushed.
LoopBreak(pos, segments, exceptions) ==
    [stop |-> TRUE, pos |-> pos, segments |-> segments, exceptions |-> exceptions]

LoopContinue(pos, segments, exceptions) ==
    [stop |-> FALSE, pos |-> pos, segments |-> segments, exceptions |-> exceptions]

\* a loop body that, when includes_header is set, counts the message from pos
LengthPrefixStepCountingHeader(data, h, pos) ==
    LET len_pos == pos + h.offset IN
    IF len_pos + h.width > Len(data)
    THEN LoopBreak(pos, <<Seg("Error", "Incomplete length field", pos, Len(data))>>, <<>>)
    ELSE
      LET len == ReadLength(data, len_pos, h.width, h.endian)
          header_end == len_pos + h.width
          message_end == IF h.includes_header THEN Max(header_end, pos + len) ELSE header_end + len
      IN IF message_end > Len(data)
         THEN LoopBreak(pos, <<Seg("Error", "Message overflow", pos, Len(data))>>, <<ExcMessageExtends>>)
         ELSE LoopContinue(message_end, LengthPrefixMessage(data, pos, header_end, message_end), <<>>)

\* parsers.rs 40-105: the body of the while loop of LengthPrefixParser
LengthPrefixStep(data, h, pos) ==
    LET len_pos == pos + h.offset IN
    IF len_pos + h.width > Len(data)
    THEN LoopBreak(pos, <<Seg("Error", "Incomplete length field", pos, Len(data))>>, <<>>)
    ELSE
      LET len == ReadLength(data, len_pos, h.width, h.endian)
          header_end == len_pos + h.width
          message_end == header_end + len
      IN IF message_end > Len(data)
         THEN LoopBreak(pos, <<Seg("Error", "Message overflow", pos, Len(data))>>, <<ExcMessageExtends>>)
         ELSE LoopContinue(message_end, LengthPrefixMessage(data, pos, header_end, message_end), <<>>)

\* the while loop of LengthPrefixParser::parse_corpus for one PDU
RECURSIVE LengthPrefixLoop(_, _, _, _, _)
LengthPrefixLoop(data, h, pos, segments, exceptions) ==
    IF ~(pos < Len(data)) THEN ParsedPduOf(segments, exceptions)
    ELSE
      LET st == LengthPrefixStep(data, h, pos) IN
      IF st.stop THEN ParsedPduOf(segments \o st.segments, exceptions \o st.exceptions)
      ELSE LengthPrefixLoop(data, h, st.pos, segments \o st.segments, exceptions \o st.exceptions)

LengthPrefixParsePdu(data, h) == LengthPrefixLoop(data, h, 0, <<>>, <<>>)

\* data[i..].starts_with(pattern)
StartsWithAt(data, i, pattern) ==
    /\ i + Len(pattern) <= Len(data)
    /\ \A k \in 1..Len(pattern) : data[i + k] = pattern[k]

\* a search that starts one byte after pos
FindPatternAfterPos(data, pos, pattern) ==
    LET limit == Max(0, Len(data) - (Len(pattern) - 1))
        hits == {i \in (pos + 1)..(limit - 1) : StartsWithAt(data, i, pattern)}
    IN IF hits = {} THEN -1 ELSE CHOOSE i \in hits : \A j \in hits : i <= j

\* parsers.rs 142-148: first i in pos .. len.saturating_sub(plen - 1) with a match; -1 is None
FindPattern(data, pos, pattern) ==
    LET limit == Max(0, Len(data) - (Len(pattern) - 1))
        hits == {i \in pos..(limit - 1) : StartsWithAt(data, i, pattern)}
    IN IF hits = {} THEN -1 ELSE CHOOSE i \in hits : \A j \in hits : i <= j

\* parsers.rs 141-163: the body of the while loop of DelimiterParser
DelimiterStep(data, pattern, pos) ==
    LET found == FindPattern(data, pos, pattern)
        next_boundary == IF found = -1 THEN Len(data) ELSE found
        sdu == IF pos < next_boundary THEN <<Seg("Sdu", "", pos, next_boundary)>> ELSE <<>>
    IN IF found # -1
       THEN LoopContinue(next_boundary + Len(pattern),
                         Append(sdu, Seg("MessageBoundary", "", next_boundary, next_boundary + Len(pattern))),
                         <<>>)
       ELSE LoopContinue(Len(data), sdu, <<>>)

RECURSIVE DelimiterLoop(_, _, _, _)
DelimiterLoop(data, pattern, pos, segments) ==
    IF ~(pos < Len(data)) THEN ParsedPduOf(segments, <<>>)
    ELSE
      LET st == DelimiterStep(data, pattern, pos) IN
      DelimiterLoop(data, pattern, st.pos, segments \o st.segments)

DelimiterParsePdu(data, h) == DelimiterLoop(data, h.pattern, 0, <<>>)

\* FixedHeaderParser whose Error segment spans the header it expected
FixedHeaderParsePduErrorSpan(data, h) ==
    IF Len(data) < h.len
    THEN ParsedPduOf(<<Seg("Error", "PDU too short", 0, h.len)>>, <<>>)
    ELSE ParsedPduOf(<<Seg("Pci", "", 0, h.len)>>
                     \o (IF h.len < Len(data) THEN <<Seg("Sdu", "", h.len, Len(data))>> ELSE <<>>),
                     <<>>)

\* a parse that pushes the Sdu even when nothing follows the header
FixedHeaderParsePduEmptySdu(data, h) ==
    IF Len(data) < h.len
    THEN ParsedPduOf(<<Seg("Error", "PDU too short", 0, Len(data))>>, <<>>)
    ELSE ParsedPduOf(<<Seg("Pci", "", 0, h.len), Seg("Sdu", "", h.len, Len(data))>>, <<>>)

FixedHeaderParsePdu(data, h) ==
    IF Len(data) < h.len
    THEN ParsedPduOf(<<Seg("Error", "PDU too short", 0, Len(data))>>, <<>>)
    ELSE ParsedPduOf(<<Seg("Pci", "", 0, h.len)>>
                     \o (IF h.len < Len(data) THEN <<Seg("Sdu", "", h.len, Len(data))>> ELSE <<>>),
                     <<>>)

\* (byte >> bit) & 1
BitOf(byte, bit) == (byte \div (2 ^ bit)) % 2

\* parsers.rs 256-268: the bitmap scan; returns bitmap_len
RECURSIVE BitmapScan(_, _, _, _)
BitmapScan(data, h, bitmap_pos, bitmap_len) ==
    IF ~(bitmap_pos < Len(data) /\ bitmap_len < h.max_bytes) THEN bitmap_len
    ELSE IF BitOf(At(data, bitmap_pos), h.cont_bit) = h.stop_value THEN bitmap_len + 1
    ELSE BitmapScan(data, h, bitmap_pos + 1, bitmap_len + 1)

ExtensibleBitmapParsePdu(data, h) ==
    IF Len(data) < h.start
    THEN ParsedPduOf(<<Seg("Error", "PDU too short for bitmap start", 0, Len(data))>>, <<>>)
    ELSE
      LET bitmap_end == h.start + BitmapScan(data, h, h.start, 0) IN
      IF bitmap_end > Len(data)
      THEN ParsedPduOf(<<Seg("Error", "Bitmap overflow", 0, Len(data))>>, <<ExcBitmapExtends>>)
      ELSE ParsedPduOf(
             (IF h.start > 0 THEN <<Seg("Pci", "", 0, h.start)>> ELSE <<>>)
             \o <<Seg("Field", "bitmap", h.start, bitmap_end)>>
             \o (IF bitmap_end < Len(data) THEN <<Seg("Sdu", "", bitmap_end, Len(data))>> ELSE <<>>),
             <<>>)

\* parsers.rs 403-408
LengthFieldSize(len_rule) ==
    CASE len_rule = "DefiniteShort" -> 1
      [] len_rule = "DefiniteMedium" -> 2
      [] len_rule = "DefiniteLong" -> 4
      [] len_rule = "IndefiniteWithEoc" -> 0

\* parsers.rs 386-394 and 479-486: first p >= from with p + 1 < len and 00 00 at p; -1 if none
FindEoc(data, from) ==
    LET hits == {p \in from..(Len(data) - 2) : At(data, p) = 0 /\ At(data, p + 1) = 0}
    IN IF hits = {} THEN -1 ELSE CHOOSE p \in hits : \A q \in hits : p <= q

\* parsers.rs 352-401: the decoded length, or the exception that stops the PDU
TlvReadLength(data, len_rule, length_start) ==
    CASE len_rule = "DefiniteShort" ->
            IF length_start >= Len(data) THEN [ok |-> FALSE, exc |-> ExcIncompleteLength]
            ELSE [ok |-> TRUE, len |-> At(data, length_start)]
      [] len_rule = "DefiniteMedium" ->
            IF length_start + 2 > Len(data) THEN [ok |-> FALSE, exc |-> ExcIncompleteLength]
            ELSE [ok |-> TRUE, len |-> U16FromBe(At(data, length_start), At(data, length_start + 1))]
      [] len_rule = "DefiniteLong" ->
            IF length_start + 4 > Len(data) THEN [ok |-> FALSE, exc |-> ExcIncompleteLength]
            ELSE [ok |-> TRUE, len |-> U32FromBe(At(data, length_start), At(data, length_start + 1),
                                                 At(data, length_start + 2), At(data, length_start + 3))]
      [] len_rule = "IndefiniteWithEoc" ->
            LET search_pos == FindEoc(data, length_start) IN
            IF search_pos = -1 THEN [ok |-> FALSE, exc |-> ExcEocNotFound]
            ELSE [ok |-> TRUE, len |-> search_pos - length_start]

\* an advance that, with the header counted in the length, adds the whole
\* length to the start of the value
TlvAdvancePastLength(data, h, tag_start, length_start, value_start, len, actual_len) ==
    IF h.len_rule = "IndefiniteWithEoc" THEN FindEoc(data, length_start) + 2
    ELSE IF h.length_includes_header THEN value_start + len
    ELSE value_start + actual_len

\* an advance that, with the header counted in the length, goes on from the
\* tag by the length of the value alone
TlvAdvanceByValue(data, h, tag_start, length_start, value_start, len, actual_len) ==
    IF h.len_rule = "IndefiniteWithEoc" THEN FindEoc(data, length_start) + 2
    ELSE IF h.length_includes_header THEN tag_start + actual_len
    ELSE value_start + actual_len

\* parsers.rs 476-496: the position of the next TLV
TlvAdvance(data, h, tag_start, length_start, value_start, len, actual_len) ==
    IF h.len_rule = "IndefiniteWithEoc" THEN FindEoc(data, length_start) + 2
    ELSE IF h.length_includes_header THEN tag_start + len
    ELSE value_start + actual_len

\* parsers.rs 323-496: the body of the while loop of TlvParser
TlvStep(data, h, pos) ==
    LET tag_start == pos + h.tag_offset IN
    IF tag_start + h.tag_bytes > Len(data)
    THEN LoopBreak(pos, <<Seg("Error", "Incomplete tag", pos, Len(data))>>, <<ExcIncompleteTag>>)
    ELSE
      LET seg1 == (IF h.tag_offset > 0 /\ pos < tag_start
                   THEN <<Seg("Pci", "", pos, tag_start)>> ELSE <<>>)
          seg2 == Append(seg1, Seg("Field", "tag", tag_start, tag_start + h.tag_bytes))
          length_start == pos + h.len_offset
          rd == TlvReadLength(data, h.len_rule, length_start)
      IN
      IF ~rd.ok THEN LoopBreak(pos, seg2, <<rd.exc>>)
      ELSE
        LET len == rd.len
            length_field_size == LengthFieldSize(h.len_rule)
            length_end == length_start + length_field_size
            seg3 == (IF tag_start + h.tag_bytes < length_start
                     THEN Append(seg2, Seg("Pci", "", tag_start + h.tag_bytes, length_start)) ELSE seg2)
            seg4 == (IF length_field_size > 0
                     THEN Append(seg3, Seg("Field", "length", length_start, length_end)) ELSE seg3)
            value_start == length_end
            remaining_bytes == Max(0, Len(data) - value_start)
            header_size == length_end - tag_start
            actual_len == IF h.length_includes_header THEN len - header_size ELSE len
        IN
        IF len > remaining_bytes + 1000
        THEN LoopBreak(pos, seg4, <<ExcLengthInvalid>>)
        ELSE IF h.length_includes_header /\ ~(len >= header_size)
        THEN LoopBreak(pos, seg4, <<ExcLengthTooSmall>>)
        ELSE IF value_start + actual_len > Len(data)
        THEN LoopBreak(pos, seg4, <<ExcValueExtends>>)
        ELSE IF actual_len > Len(data) - value_start
        THEN LoopBreak(pos, seg4, <<ExcLengthTooLarge>>)
        ELSE LoopContinue(TlvAdvance(data, h, tag_start, length_start, value_start, len, actual_len),
                          (IF actual_len > 0
                           THEN Append(seg4, Seg("Sdu", "", value_start, value_start + actual_len))
                           ELSE seg4),
                          <<>>)

\* the while loop of TlvParser::parse_corpus for one PDU
RECURSIVE TlvLoop(_, _, _, _, _)
TlvLoop(data, h, pos, segments, exceptions) ==
    IF ~(pos < Len(data)) THEN ParsedPduOf(segments, exceptions)
    ELSE
      LET st == TlvStep(data, h, pos) IN
      IF st.stop THEN ParsedPduOf(segments \o st.segments, exceptions \o st.exceptions)
      ELSE TlvLoop(data, h, st.pos, segments \o st.segments, exceptions \o st.exceptions)

TlvParsePdu(data, h) == TlvLoop(data, h, 0, <<>>, <<>>)

\* parsers.rs 541-550 and 572-579: consume varint bytes from pos, at most max of
\* them, stopping after a byte with the high bit clear; returns the new pos
RECURSIVE VarintScan(_, _, _, _)
VarintScan(data, pos, n, max) ==
    IF ~(n < max /\ pos < Len(data)) THEN pos
    ELSE IF At(data, pos) < 128 THEN pos + 1
    ELSE VarintScan(data, pos + 1, n + 1, max)

\* a value read that, after a length-delimited value, goes on one byte early
VarintValueShortStep(data, wire_type, pos) ==
    CASE wire_type = 0 ->
            LET end == VarintScan(data, pos, 0, 10) IN
            [ok |-> TRUE, pos |-> end, segs |-> <<Seg("Field", "value_varint", pos, end)>>]
      [] wire_type = 1 ->
            IF pos + 8 > Len(data) THEN [ok |-> FALSE, exc |-> ExcIncompleteFixed64]
            ELSE [ok |-> TRUE, pos |-> pos + 8, segs |-> <<Seg("Field", "value_fixed64", pos, pos + 8)>>]
      [] wire_type = 2 ->
            IF pos >= Len(data) THEN [ok |-> FALSE, exc |-> ExcIncompleteLength]
            ELSE LET len == At(data, pos) IN
                 IF pos + 1 + len > Len(data) THEN [ok |-> FALSE, exc |-> ExcLengthDelimitedExtends]
                 ELSE [ok |-> TRUE, pos |-> pos + len,
                       segs |-> <<Seg("Field", "value_length", pos, pos + 1),
                                  Seg("Sdu", "", pos + 1, pos + 1 + len)>>]
      [] wire_type = 5 ->
            IF pos + 4 > Len(data) THEN [ok |-> FALSE, exc |-> ExcIncompleteFixed32]
            ELSE [ok |-> TRUE, pos |-> pos + 4, segs |-> <<Seg("Field", "value_fixed32", pos, pos + 4)>>]
      [] OTHER -> [ok |-> FALSE, exc |-> ExcUnknownWireType]

\* parsers.rs 567-632: the value after a key; ok = FALSE stops the PDU
VarintValue(data, wire_type, pos) ==
    CASE wire_type = 0 ->
            LET end == VarintScan(data, pos, 0, 10) IN
            [ok |-> TRUE, pos |-> end, segs |-> <<Seg("Field", "value_varint", pos, end)>>]
      [] wire_type = 1 ->
            IF pos + 8 > Len(data) THEN [ok |-> FALSE, exc |-> ExcIncompleteFixed64]
            ELSE [ok |-> TRUE, pos |-> pos + 8, segs |-> <<Seg("Field", "value_fixed64", pos, pos + 8)>>]
      [] wire_type = 2 ->
            IF pos >= Len(data) THEN [ok |-> FALSE, exc |-> ExcIncompleteLength]
            ELSE LET len == At(data, pos) IN
                 IF pos + 1 + len > Len(data) THEN [ok |-> FALSE, exc |-> ExcLengthDelimitedExtends]
                 ELSE [ok |-> TRUE, pos |-> pos + 1 + len,
                       segs |-> <<Seg("Field", "value_length", pos, pos + 1),
                                  Seg("Sdu", "", pos + 1, pos + 1 + len)>>]
      [] wire_type = 5 ->
            IF pos + 4 > Len(data) THEN [ok |-> FALSE, exc |-> ExcIncompleteFixed32]
            ELSE [ok |-> TRUE, pos |-> pos + 4, segs |-> <<Seg("Field", "value_fixed32", pos, pos + 4)>>]
      [] OTHER -> [ok |-> FALSE, exc |-> ExcUnknownWireType]

\* parsers.rs 536-632: the body of the while loop of VarintParser.  key_value & 7
\* is the low three bits of the first key byte: byte k >= 1 is shifted by 7k >= 7.
VarintStep(data, h, pos) ==
    LET key_start == pos
        key_end == VarintScan(data, pos, 0, h.key_max_bytes)
        key_bytes == key_end - key_start
        wire_type == (At(data, key_start) % 128) % 8
    IN
    IF key_bytes >= h.key_max_bytes /\ key_end < Len(data) /\ At(data, key_end - 1) >= 128
    THEN LoopBreak(key_end, <<>>, <<ExcVarintKeyTooLong>>)
    ELSE
      LET key == <<Seg("Field", "key", key_start, key_end)>>
          val == VarintValue(data, wire_type, key_end)
      IN IF ~val.ok THEN LoopBreak(key_end, key, <<val.exc>>)
         ELSE LoopContinue(val.pos, key \o val.segs, <<>>)

\* the while loop of VarintParser::parse_corpus for one PDU
RECURSIVE VarintLoop(_, _, _, _, _)
VarintLoop(data, h, pos, segments, exceptions) ==
    IF ~(pos < Len(data)) THEN ParsedPduOf(segments, exceptions)
    ELSE
      LET st == VarintStep(data, h, pos) IN
      IF st.stop THEN ParsedPduOf(segments \o st.segments, exceptions \o st.exceptions)
      ELSE VarintLoop(data, h, st.pos, segments \o st.segments, exceptions \o st.exceptions)

VarintParsePdu(data, h) == VarintLoop(data, h, 0, <<>>, <<>>)

\* Parser::applicable of the six parsers
Applicable(p, h) ==
    CASE p = "LengthPrefixParser" -> h.tag = "LengthPrefixBundle"
      [] p = "DelimiterParser" -> h.tag = "DelimiterBundle"
      [] p = "FixedHeaderParser" -> h.tag = "FixedHeader"
      [] p = "ExtensibleBitmapParser" -> h.tag = "ExtensibleBitmap"
      [] p = "TlvParser" -> h.tag = "Tlv"
      [] p = "VarintParser" -> h.tag = "VarintKeyWireType"

\* one PDU under parser p; a parser handed another family's hypothesis returns
\* ParsedCorpus::new(vec![]) for the whole corpus, see ParseCorpus
ParsePdu(p, data, h) ==
    CASE p = "LengthPrefixParser" -> LengthPrefixParsePdu(data, h)
      [] p = "DelimiterParser" -> DelimiterParsePdu(data, h)
      [] p = "FixedHeaderParser" -> FixedHeaderParsePdu(data, h)
      [] p = "ExtensibleBitmapParser" -> ExtensibleBitmapParsePdu(data, h)
      [] p = "TlvParser" -> TlvParsePdu(data, h)
      [] p = "VarintParser" -> VarintParsePdu(data, h)

\* Parser::parse_corpus: one ParsedPdu per PDU slice, in order
ParseCorpus(p, pdus, h) ==
    IF ~Applicable(p, h) THEN <<>>
    ELSE [i \in 1..Len(pdus) |-> ParsePdu(p, pdus[i], h)]

\* ------------------------------------------------------------------ f64
\* Bit quantities are f64 in the source.  They are kept in hundredths of a bit
\* (an integer v), with the two infinities and NaN as kinds of their own.
Fin(v) == [kind |-> "fin", v |-> v]

PosInf == [kind |-> "+inf", v |-> 0]

NegInf == [kind |-> "-inf", v |-> 0]

NaN == [kind |-> "nan", v |-> 0]

Bits(n) == Fin(100 * n)

NumNeg(a) ==
    CASE a.kind = "fin" -> Fin(0 - a.v)
      [] a.kind = "+inf" -> NegInf
      [] a.kind = "-inf" -> PosInf
      [] OTHER -> NaN

NumAdd(a, b) ==
    CASE a.kind = "nan" \/ b.kind = "nan" -> NaN
      [] a.kind = "fin" /\ b.kind = "fin" -> Fin(a.v + b.v)
      [] a.kind = "fin" -> b
      [] b.kind = "fin" -> a
      [] a.kind = b.kind -> a
      [] OTHER -> NaN

NumSub(a, b) == NumAdd(a, NumNeg(b))

\* a < b of f64: false when either side is NaN
NumLt(a, b) ==
    /\ a.kind # "nan" /\ b.kind # "nan"
    /\ \/ a.kind = "-inf" /\ b.kind # "-inf"
       \/ a.kind = "fin" /\ b.kind = "fin" /\ a.v < b.v
       \/ a.kind = "fin" /\ b.kind = "+inf"

NumGe(a, b) == a.kind # "nan" /\ b.kind # "nan" /\ ~NumLt(a, b)

\* ------------------------------------------------------------------ measures.rs
\* round(100 * n * log2(n)) for n = 1..64
CentiNLog2N == <<
    0, 200, 475, 800, 1161, 1551, 1965, 2400, 2853, 3322, 3805, 4302, 4811, 5330, 5860,
    6400, 6949, 7506, 8071, 8644, 9224, 9811, 10404, 11004, 11610, 12221, 12838, 13461,
    14088, 14721, 15358, 16000, 16647, 17297, 17952, 18612, 19275, 19942, 20613, 21288,
    21966, 22648, 23333, 24021, 24713, 25408, 26107, 26808, 27512, 28219, 28929, 29642,
    30358, 31076, 31797, 32521, 33247, 33976, 34708, 35441, 36177, 36916, 37657, 38400
>>

\* round(100 * 2 * log2(len)) for len = 1..32
CentiTwoLog2 == <<
    0, 200, 317, 400, 464, 517, 561, 600, 634, 664, 692, 717, 740, 761, 781, 800, 817,
    834, 850, 864, 878, 892, 905, 917, 929, 940, 951, 961, 972, 981, 991, 1000
>>

ByteCount(data, b) == Cardinality({i \in 1..Len(data) : data[i] = b})

\* entropy(data) * data.len(), in hundredths of a bit:
\* n*log2(n) - sum over byte values of count*log2(count)
EntropyTimesLen(data) ==
    IF data = <<>> THEN 0
    ELSE LET vals == {data[i] : i \in 1..Len(data)}
             RECURSIVE Sum(_)
             Sum(S) == IF S = {} THEN 0
                       ELSE LET b == CHOOSE x \in S : TRUE
                            IN CentiNLog2N[ByteCount(data, b)] + Sum(S \ {b})
         IN Max(0, CentiNLog2N[Len(data)] - Sum(vals))

\* compressed_size(data): the length of flate2's raw-deflate output.  The
\* encoder is an external crate; its output length is taken as that of one
\* fixed-Huffman block of literals: 3 header bits, 8 bits per byte below 144
\* and 9 bits per byte from 144, 7 end-of-block bits, rounded up to bytes.
CompressedSize(data) ==
    LET high == Cardinality({i \in 1..Len(data) : data[i] >= 144})
    IN (3 + 8 * Len(data) + high + 7 + 7) \div 8

\* compressed_size(buf) * 8.0
CompressedBits(data) == 800 * CompressedSize(data)

\* scorers.rs 125-131: min(entropy * len, compressed * 8), 0 for an empty buffer
EncodeBits(data) ==
    IF data = <<>> THEN 0 ELSE Min(EntropyTimesLen(data), CompressedBits(data))

\* ------------------------------------------------------------------ parser.rs
\* ParsedPdu::is_success
IsSuccess(pp) == ~\E i \in 1..Len(pp.segments) : pp.segments[i].kind = "Error"

\* a success ratio that takes an empty ParsedCorpus for a full success
ParseSuccessRatioVacuous(parsed) ==
    IF parsed = <<>> THEN [num |-> 1, den |-> 1]
    ELSE [num |-> Cardinality({i \in 1..Len(parsed) : IsSuccess(parsed[i])}), den |-> Len(parsed)]

\* ParsedCorpus::parse_success_ratio as the fraction num/den (0.0 is 0/1)
ParseSuccessRatio(parsed) ==
    IF parsed = <<>> THEN [num |-> 0, den |-> 1]
    ELSE [num |-> Cardinality({i \in 1..Len(parsed) : IsSuccess(parsed[i])}), den |-> Len(parsed)]

\* ratio < 0.95, decided on the fraction
RatioBelowMin(r) == r.num * 100 < 95 * r.den

\* ------------------------------------------------------------------ score.rs
\* a total that adds the entropy drop instead of taking it off
TotalBitsAddsDrop(b) ==
    NumAdd(NumAdd(NumSub(NumAdd(b.mdl_model_bits, b.mdl_data_bits), b.alignment_gain_bits),
                  b.entropy_drop_bits),
           b.penalties_bits)

\* ScoreBreakdown::total_bits
TotalBits(b) ==
    NumAdd(NumSub(NumSub(NumAdd(b.mdl_model_bits, b.mdl_data_bits), b.alignment_gain_bits),
                  b.entropy_drop_bits),
           b.penalties_bits)

\* Score::new
ScoreNew(breakdown) == [breakdown |-> breakdown, total_bits |-> TotalBits(breakdown)]

\* Score::partial_cmp(a, b) = Some(Less)
ScoreLess(a, b) == NumLt(a.total_bits, b.total_bits)

\* ------------------------------------------------------------------ scorers.rs
\* exc.contains(pat) on word sequences
Contains(exc, pat) ==
    \E k \in 0..(Len(exc) - Len(pat)) : \A j \in 1..Len(pat) : exc[k + j] = pat[j]

OverflowPatterns ==
    { <<"extends", "beyond", "PDU">>,
      <<"Length", "too", "large", "for", "remaining", "data">>,
      <<"Message", "extends", "beyond", "PDU">>,
      <<"Bitmap", "extends", "beyond", "PDU">>,
      <<"Length-delimited", "value", "extends", "beyond", "PDU">> }

\* an overflow screen that looks at the first parsed PDU only
HasOverflowInFirstPdu(parsed) ==
    /\ parsed # <<>>
    /\ \E e \in 1..Len(parsed[1].exceptions) :
          \E pat \in OverflowPatterns : Contains(parsed[1].exceptions[e], pat)

\* scorers.rs 40-48
HasPduOverflowExceptions(parsed) ==
    \E i \in 1..Len(parsed) : \E e \in 1..Len(parsed[i].exceptions) :
        \E pat \in OverflowPatterns : Contains(parsed[i].exceptions[e], pat)

\* a rejection whose breakdown is all zero instead of infinite
RejectScoreZero(ratio) ==
    ScoreNew([mdl_model_bits |-> Fin(0), mdl_data_bits |-> Fin(0), parse_success_ratio |-> ratio,
              alignment_gain_bits |-> Fin(0), entropy_drop_bits |-> Fin(0), penalties_bits |-> Fin(0)])

\* a rejection with every bit field infinite, whose total is inf - inf
RejectScoreAllInfinite(ratio) ==
    ScoreNew([mdl_model_bits |-> PosInf, mdl_data_bits |-> PosInf, parse_success_ratio |-> ratio,
              alignment_gain_bits |-> PosInf, entropy_drop_bits |-> PosInf, penalties_bits |-> PosInf])

\* scorers.rs 64-71 and 78-85: the rejecting score
RejectScore(ratio) ==
    ScoreNew([mdl_model_bits |-> PosInf, mdl_data_bits |-> PosInf, parse_success_ratio |-> ratio,
              alignment_gain_bits |-> Fin(0), entropy_drop_bits |-> Fin(0), penalties_bits |-> PosInf])

\* scorers.rs 96-117: the bytes of the segments of one class, PDU by PDU
SegmentClass(kind) ==
    CASE kind = "Pci" -> "pci" [] kind = "Sdu" -> "sdu" [] kind = "Field" -> "field" [] OTHER -> "none"

RECURSIVE SegBytes(_, _, _)
SegBytes(data, segments, class) ==
    IF segments = <<>> THEN <<>>
    ELSE LET sg == Head(segments)
             slice == Slice(data, sg.start, sg.end)
         IN (IF SegmentClass(sg.kind) = class THEN slice ELSE <<>>) \o SegBytes(data, Tail(segments), class)

ClassBytes(pdus, parsed, class) ==
    Concat([i \in 1..Min(Len(pdus), Len(parsed)) |-> SegBytes(pdus[i], parsed[i].segments, class)])

\* estimate_model_bits
EstimateModelBits(h) ==
    CASE h.tag = "LengthPrefixBundle" -> 3200
      [] h.tag = "DelimiterBundle" -> 1600 + 800 * Len(h.pattern)
      [] h.tag = "FixedHeader" -> 1600 + CentiTwoLog2[h.len]
      [] h.tag = "ExtensibleBitmap" -> 4000
      [] h.tag = "Tlv" -> 2400
      [] h.tag = "VarintKeyWireType" -> 2400

\* scorers.rs 171-202
PenaltiesBits(parsed) ==
    LET nseg == SumSeq([i \in 1..Len(parsed) |-> Len(parsed[i].segments)])
        npdu == Max(Len(parsed), 1)
        over == IF nseg > 10 * npdu THEN (800 * nseg - 8000 * npdu) \div npdu ELSE 0
        exception_count == SumSeq([i \in 1..Len(parsed) |-> Len(parsed[i].exceptions)])
        small_segments == SumSeq([i \in 1..Len(parsed) |->
                              Cardinality({k \in 1..Len(parsed[i].segments) : SegLen(parsed[i].segments[k]) < 2})])
    IN over + 1600 * exception_count + 400 * small_segments

\* scorers.rs 213-269
EntropyDropBits(pdus, pci_data, field_data, sdu_data) ==
    LET raw_data == Concat(pdus)
        comp(buf) == IF buf # <<>> THEN CompressedBits(buf) ELSE 0
        model_compressed == comp(pci_data) + comp(field_data) + comp(sdu_data)
        raw_compressed == CompressedBits(raw_data)
    IN IF raw_data = <<>> THEN 0
       ELSE IF model_compressed < raw_compressed THEN raw_compressed - model_compressed
       ELSE 0

\* MdlScorer::score(corpus, parsed, h); the corpus is read through its PDU
\* slices and corpus.total_bytes()
MdlScore(pdus, total_bytes, parsed, h) ==
    IF HasPduOverflowExceptions(parsed) THEN RejectScore([num |-> 0, den |-> 1])
    ELSE IF RatioBelowMin(ParseSuccessRatio(parsed)) THEN RejectScore(ParseSuccessRatio(parsed))
    ELSE
      LET pci_data == ClassBytes(pdus, parsed, "pci")
          sdu_data == ClassBytes(pdus, parsed, "sdu")
          field_data == ClassBytes(pdus, parsed, "field")
          mdl_model_bits == EstimateModelBits(h) + EncodeBits(pci_data) + EncodeBits(field_data)
          mdl_data_bits == IF sdu_data # <<>> THEN EncodeBits(sdu_data) ELSE 800 * total_bytes
      IN ScoreNew([mdl_model_bits |-> Fin(mdl_model_bits),
                   mdl_data_bits |-> Fin(mdl_data_bits),
                   parse_success_ratio |-> ParseSuccessRatio(parsed),
                   alignment_gain_bits |-> Fin(0),
                   entropy_drop_bits |-> Fin(EntropyDropBits(pdus, pci_data, field_data, sdu_data)),
                   penalties_bits |-> Fin(PenaltiesBits(parsed))])

\* ------------------------------------------------------------------ plugin.rs
\* PluginRegistry::new: three empty vectors
PluginRegistryNew == [generators |-> <<>>, parsers |-> <<>>, scorers |-> <<>>]

\* impl Default for PluginRegistry: Self::new()
PluginRegistryDefault == PluginRegistryNew

\* ------------------------------------------------------------------ plugins/mod.rs
\* create_default_registry(): plugins in registration order
DefaultGenerators ==
    <<"LengthPrefixGenerator", "DelimiterGenerator", "FixedHeaderGenerator",
      "ExtensibleBitmapGenerator", "TlvGenerator", "VarintGenerator">>

DefaultParsers ==
    <<"LengthPrefixParser", "DelimiterParser", "FixedHeaderParser",
      "ExtensibleBitmapParser", "TlvParser", "VarintParser">>

DefaultRegistry == [generators |-> DefaultGenerators, parsers |-> DefaultParsers, scorers |-> <<"MdlScorer">>]

\* ------------------------------------------------------------------ inference.rs
\* inference.rs 137-140: every generator's proposals, in registration order
GenerateAll(generators, pdus) == Concat([g \in 1..Len(generators) |-> Propose(generators[g], pdus)])

\* inference.rs 151: registry.parsers().iter().find(|p| p.applicable(&h)); 0 is None
FindParser(parsers, h) ==
    LET ok == {i \in 1..Len(parsers) : Applicable(parsers[i], h)}
    IN IF ok = {} THEN 0 ELSE CHOOSE i \in ok : \A j \in ok : i <= j

\* a closure that, without a scorer, keeps the hypothesis with an all-zero score
ParseAndScoreDefaultScore(registry, pdus, total_bytes, h) ==
    LET pi == FindParser(registry.parsers, h) IN
    IF pi = 0 THEN [none |-> TRUE]
    ELSE LET parsed == ParseCorpus(registry.parsers[pi], pdus, h)
         IN [none |-> FALSE, hypothesis |-> h,
             score |-> IF registry.scorers = <<>>
                       THEN ScoreNew([mdl_model_bits |-> Fin(0), mdl_data_bits |-> Fin(0),
                                      parse_success_ratio |-> [num |-> 0, den |-> 1],
                                      alignment_gain_bits |-> Fin(0), entropy_drop_bits |-> Fin(0),
                                      penalties_bits |-> Fin(0)])
                       ELSE MdlScore(pdus, total_bytes, parsed, h),
             parsed |-> parsed]

\* inference.rs 149-163: the closure run on one hypothesis; none = TRUE is None
ParseAndScore(registry, pdus, total_bytes, h) ==
    LET pi == FindParser(registry.parsers, h) IN
    IF pi = 0 \/ registry.scorers = <<>> THEN [none |-> TRUE]
    ELSE LET parsed == ParseCorpus(registry.parsers[pi], pdus, h)
         IN [none |-> FALSE, hypothesis |-> h,
             score |-> MdlScore(pdus, total_bytes, parsed, h), parsed |-> parsed]

\* ------------------------------------------------------------------ corpus.rs
\* A PduRef is a buffer handle (an index into the buffers, standing for the
\* Arc<[u8]>) and a byte range of that buffer.
PduRefNew(data, start, end) == [data |-> data, start |-> start, end |-> end]

\* PduRef::len
PduLen(p) == p.end - p.start

\* PduRef::as_slice
AsSlice(bufs, p) == Slice(bufs[p.data], p.start, p.end)

CorpusNew(items, meta) == [items |-> items, meta |-> meta]

\* Corpus::from_datagrams: one PduRef over the whole of each payload buffer
FromDatagrams(bufs) ==
    LET items == [i \in 1..Len(bufs) |-> PduRefNew(i, 0, Len(bufs[i]))]
    IN CorpusNew(items, [source |-> <<"flow">>,
                         total_bytes |-> SumSeq([i \in 1..Len(items) |-> PduLen(items[i])]),
                         pdu_count |-> Len(items)])

\* the PDU slices of a corpus, in order
CorpusPdus(bufs, c) == [i \in 1..Len(c.items) |-> AsSlice(bufs, c.items[i])]

\* ------------------------------------------------------------------ inference.rs
\* InferenceEngine::new
EngineNew == [max_depth |-> 6, top_k |-> 10, min_gain_epsilon |-> Bits(100), min_sdu_size |-> 4]

\* inference.rs 125-134: avg_size < min_sdu_size, on a non-empty corpus
AvgBelowMin(c, min_sdu_size) ==
    SumSeq([i \in 1..Len(c.items) |-> PduLen(c.items[i])]) < min_sdu_size * Max(Len(c.items), 1)

\* inference.rs 147-164: filter_map over the hypotheses, collected in their order
FilterSome(rs) ==
    LET some == SelectSeq(rs, LAMBDA r : ~r.none)
    IN [i \in 1..Len(some) |->
           [hypothesis |-> some[i].hypothesis, score |-> some[i].score, parsed |-> some[i].parsed]]

ScoreAll(registry, pdus, total_bytes, hyps) ==
    FilterSome([i \in 1..Len(hyps) |-> ParseAndScore(registry, pdus, total_bytes, hyps[i])])

\* an insertion that puts an element before the elements it is equal to
InsertBeforeEqual(sorted, x) ==
    LET after == {k \in 1..Len(sorted) : ~ScoreLess(sorted[k].score, x.score)}
        at == IF after = {} THEN Len(sorted) + 1 ELSE CHOOSE k \in after : \A j \in after : k <= j
    IN SubSeq(sorted, 1, at - 1) \o <<x>> \o SubSeq(sorted, at, Len(sorted))

\* sort_by with partial_cmp(..).unwrap_or(Equal): a stable sort, so an element
\* stays behind every earlier element it is not less than
InsertStable(sorted, x) ==
    LET after == {k \in 1..Len(sorted) : ScoreLess(x.score, sorted[k].score)}
        at == IF after = {} THEN Len(sorted) + 1 ELSE CHOOSE k \in after : \A j \in after : k <= j
    IN SubSeq(sorted, 1, at - 1) \o <<x>> \o SubSeq(sorted, at, Len(sorted))

\* the elements scored[lo..hi] inserted one after the other, in their order;
\* the first half is inserted (its length read) before the second half is begun
RECURSIVE InsertRange(_, _, _, _)
InsertRange(done, scored, lo, hi) ==
    IF lo > hi THEN done
    ELSE IF lo = hi THEN InsertStable(done, scored[lo])
    ELSE LET mid == (lo + hi) \div 2
             left == InsertRange(done, scored, lo, mid)
         IN IF Len(left) >= Len(done) THEN InsertRange(left, scored, mid + 1, hi) ELSE left

SortByScore(scored) == InsertRange(<<>>, scored, 1, Len(scored))

\* a selection that keeps every candidate
TakeAll(s, k) == s

\* inference.rs 278-281: into_iter().take(top_k)
Take(s, k) == SubSeq(s, 1, Min(k, Len(s)))

\* InferenceEngine::raw_score
RawScore(bufs, c) ==
    ScoreNew([mdl_model_bits |-> Fin(0),
              mdl_data_bits |-> Fin(CompressedBits(Concat(CorpusPdus(bufs, c)))),
              parse_success_ratio |-> [num |-> 1, den |-> 1],
              alignment_gain_bits |-> Fin(0), entropy_drop_bits |-> Fin(0), penalties_bits |-> Fin(0)])

\* extraction that takes every buffer handle from the corpus's first PDU
RECURSIVE SduItemsOfFirstBuffer(_, _, _)
SduItemsOfFirstBuffer(pdu, segments, min_sdu_size) ==
    IF segments = <<>> THEN <<>>
    ELSE LET sg == Head(segments) IN
         (IF sg.kind = "Sdu" /\ SegLen(sg) >= min_sdu_size
          THEN <<PduRefNew(1, sg.start, sg.end)>> ELSE <<>>)
         \o SduItemsOfFirstBuffer(pdu, Tail(segments), min_sdu_size)

\* inference.rs 392-402: the PduRefs made from one parsed PDU
RECURSIVE SduItemsOfPdu(_, _, _)
SduItemsOfPdu(pdu, segments, min_sdu_size) ==
    IF segments = <<>> THEN <<>>
    ELSE LET sg == Head(segments) IN
         (IF sg.kind = "Sdu" /\ SegLen(sg) >= min_sdu_size
          THEN <<PduRefNew(pdu.data, sg.start, sg.end)>> ELSE <<>>)
         \o SduItemsOfPdu(pdu, Tail(segments), min_sdu_size)

\* an extraction that hands the parent's byte and PDU counts to the SDU corpus
ExtractSduCorpusParentMeta(c, parsed, min_sdu_size) ==
    LET sdu_items == Concat([i \in 1..Min(Len(c.items), Len(parsed)) |->
                                SduItemsOfPdu(c.items[i], parsed[i].segments, min_sdu_size)])
    IN IF sdu_items = <<>> THEN [some |-> FALSE]
       ELSE [some |-> TRUE,
             corpus |-> CorpusNew(sdu_items,
                          [source |-> Append(c.meta.source, "_sdu"),
                           total_bytes |-> c.meta.total_bytes,
                           pdu_count |-> c.meta.pdu_count])]

\* InferenceEngine::extract_sdu_corpus; some = FALSE is None
ExtractSduCorpus(c, parsed, min_sdu_size) ==
    LET sdu_items == Concat([i \in 1..Min(Len(c.items), Len(parsed)) |->
                                SduItemsOfPdu(c.items[i], parsed[i].segments, min_sdu_size)])
    IN IF sdu_items = <<>> THEN [some |-> FALSE]
       ELSE [some |-> TRUE,
             corpus |-> CorpusNew(sdu_items,
                          [source |-> Append(c.meta.source, "_sdu"),
                           total_bytes |-> SumSeq([i \in 1..Len(sdu_items) |-> PduLen(sdu_items[i])]),
                           pdu_count |-> Len(sdu_items)])]

\* the gain taken against the best candidate's data bits alone
GainOfDataBits(raw_score, best_score) ==
    NumSub(raw_score.total_bits, best_score.breakdown.mdl_data_bits)

\* inference.rs 313-316: gain < min_gain_epsilon
GainOf(raw_score, best_score) == NumSub(raw_score.total_bits, best_score.total_bits)

\* a layer that does not record the SDU corpus it was given
LayerOfNoSdu(best, sdu, top_k_results) ==
    [hypothesis |-> best.hypothesis, score |-> best.score, parsed |-> best.parsed,
     sdu_corpus |-> [some |-> FALSE], all_hypotheses |-> top_k_results]

\* inference.rs 325-340
LayerOf(best, sdu, top_k_results) ==
    [hypothesis |-> best.hypothesis, score |-> best.score, parsed |-> best.parsed,
     sdu_corpus |-> sdu, all_hypotheses |-> top_k_results]

\* ------------------------------------------------------------------ state
VARIABLES
    buffers,         \* the payload buffers (Arc<[u8]>) that exist, by handle
    corpus,          \* the corpus handed to infer / to the parser
    engine,          \* the InferenceEngine: max_depth, top_k, min_gain_epsilon, min_sdu_size
    registry,        \* the PluginRegistry: generators, parsers, scorers in registration order
    pc,              \* position in infer, or in the direct parse-and-score call
    depth,           \* the for loop's depth
    current_corpus,  \* infer's current_corpus
    layers,          \* infer's layers
    hypotheses,      \* the candidates generated at this depth
    slots,           \* fan-out: the closure's result per candidate index, once computed
    order,           \* fan-out: candidate indices in the order their closures completed
    scored,          \* the collected (hypothesis, score, parsed) triples
    sorted,          \* scored after sort_by
    stop,            \* why the loop was left
    result,          \* the InferenceResult returned
    t_h,             \* direct call: the hypothesis handed to the parser
    t_out,           \* direct call: the parsed corpus and its score
    t_msgs           \* direct call on an encoded PDU: the payloads that were encoded

vars == <<buffers, corpus, engine, registry, pc, depth, current_corpus, layers, hypotheses,
          slots, order, scored, sorted, stop, result, t_h, t_out, t_msgs>>

inputVars == <<buffers, corpus, engine, registry>>

testVars == <<t_h, t_out, t_msgs>>

NoResult == [layers |-> <<>>, corpus |-> CorpusNew(<<>>, [source |-> <<>>, total_bytes |-> 0, pdu_count |-> 0]), returned |-> FALSE]

NoHypothesis == [tag |-> "none"]

NoOutput == [none |-> TRUE]

\* ------------------------------------------------------------------ infer, step by step
\* the loop head without the bound on depth
BeginUnbounded ==
    /\ pc = "loop"
    /\ LET pdus == CorpusPdus(buffers, current_corpus)
           hyps == GenerateAll(registry.generators, pdus)
           why == CASE current_corpus.items = <<>> -> "empty"
                    [] AvgBelowMin(current_corpus, engine.min_sdu_size) -> "small"
                    [] hyps = <<>> -> "no_candidates"
                    [] OTHER -> ""
       IN IF why # ""
          THEN /\ pc' = "done" /\ stop' = why
               /\ UNCHANGED <<hypotheses, slots>>
          ELSE /\ pc' = "fanout" /\ hypotheses' = hyps
               /\ slots' = [i \in 1..Len(hyps) |-> [pending |-> TRUE]]
               /\ UNCHANGED stop
    /\ order' = <<>>
    /\ UNCHANGED <<inputVars, depth, current_corpus, layers, scored, sorted, result, testVars>>

\* inference.rs 119-144: the loop head down to the generated candidates
Begin ==
    /\ pc = "loop"
    /\ LET pdus == CorpusPdus(buffers, current_corpus)
           hyps == GenerateAll(registry.generators, pdus)
           why == CASE ~(depth < engine.max_depth) -> "max_depth"
                    [] current_corpus.items = <<>> -> "empty"
                    [] AvgBelowMin(current_corpus, engine.min_sdu_size) -> "small"
                    [] hyps = <<>> -> "no_candidates"
                    [] OTHER -> ""
       IN IF why # ""
          THEN /\ pc' = "done" /\ stop' = why
               /\ UNCHANGED <<hypotheses, slots>>
          ELSE /\ pc' = "fanout" /\ hypotheses' = hyps
               /\ slots' = [i \in 1..Len(hyps) |-> [pending |-> TRUE]]
               /\ UNCHANGED stop
    /\ order' = <<>>
    /\ UNCHANGED <<inputVars, depth, current_corpus, layers, scored, sorted, result, testVars>>

\* inference.rs 147-164 as the sequential map it is equivalent to
FanOut ==
    /\ pc = "fanout"
    /\ scored' = ScoreAll(registry, CorpusPdus(buffers, current_corpus),
                          current_corpus.meta.total_bytes, hypotheses)
    /\ pc' = "sort"
    /\ UNCHANGED <<inputVars, depth, current_corpus, layers, hypotheses, slots, order, sorted,
                   stop, result, testVars>>

\* inference.rs 149-163 on one worker thread: the closure on candidate i
WorkerRun(i) ==
    /\ pc = "fanout"
    /\ i \in 1..Len(hypotheses) /\ slots[i].pending
    /\ slots' = [slots EXCEPT ![i] =
                    [pending |-> FALSE,
                     out |-> ParseAndScore(registry, CorpusPdus(buffers, current_corpus),
                                           current_corpus.meta.total_bytes, hypotheses[i])]]
    /\ order' = Append(order, i)
    /\ UNCHANGED <<inputVars, pc, depth, current_corpus, layers, hypotheses, scored, sorted,
                   stop, result, testVars>>

\* a collect that takes the results in the order the closures completed
CollectAsCompleted(done, completion) ==
    FilterSome([k \in 1..Len(completion) |-> done[completion[k]].out])

\* collect() of the parallel iterator: the Some results in candidate order
CollectInOrder(done, completion) == FilterSome([i \in 1..Len(done) |-> done[i].out])

\* inference.rs 164: collect, once every closure has run
Collect ==
    /\ pc = "fanout"
    /\ \A i \in 1..Len(slots) : ~slots[i].pending
    /\ scored' = CollectInOrder(slots, order)
    /\ pc' = "sort"
    /\ UNCHANGED <<inputVars, depth, current_corpus, layers, hypotheses, slots, order, sorted,
                   stop, result, testVars>>

\* inference.rs 166-172
Sort ==
    /\ pc = "sort"
    /\ IF scored = <<>>
       THEN pc' = "done" /\ stop' = "none_scored" /\ UNCHANGED sorted
       ELSE pc' = "select" /\ sorted' = SortByScore(scored) /\ UNCHANGED stop
    /\ UNCHANGED <<inputVars, depth, current_corpus, layers, hypotheses, slots, order, scored,
                   result, testVars>>

\* inference.rs 277-347: top-K, the gain test, the SDU corpus and the new layer
Select ==
    /\ pc = "select"
    /\ LET top_k_results == Take(sorted, engine.top_k) IN
       IF top_k_results = <<>>
       THEN pc' = "done" /\ stop' = "top_k_empty" /\ UNCHANGED <<layers, current_corpus, depth>>
       ELSE
         LET best == top_k_results[1]
             gain == GainOf(RawScore(buffers, current_corpus), best.score)
             sdu == ExtractSduCorpus(current_corpus, best.parsed, engine.min_sdu_size)
         IN IF NumLt(gain, engine.min_gain_epsilon)
            THEN pc' = "done" /\ stop' = "gain" /\ UNCHANGED <<layers, current_corpus, depth>>
            ELSE /\ layers' = Append(layers, LayerOf(best, sdu, top_k_results))
                 /\ IF sdu.some
                    THEN /\ current_corpus' = sdu.corpus /\ depth' = depth + 1
                         /\ pc' = "loop" /\ UNCHANGED stop
                    ELSE /\ pc' = "done" /\ stop' = "no_sdu"
                         /\ UNCHANGED <<current_corpus, depth>>
    /\ UNCHANGED <<inputVars, hypotheses, slots, order, scored, sorted, result, testVars>>

\* inference.rs 350-353
Return ==
    /\ pc = "done"
    /\ result' = [layers |-> layers, corpus |-> corpus, returned |-> TRUE]
    /\ pc' = "returned"
    /\ UNCHANGED <<inputVars, depth, current_corpus, layers, hypotheses, slots, order, scored,
                   sorted, stop, testVars>>

\* ------------------------------------------------------------------ inputs
Rep(b, n) == [i \in 1..n |-> b]

\* all byte strings over vals of length lo..hi
SeqsOver(vals, lo, hi) == UNION {[1..n -> vals] : n \in lo..hi}

\* byte values that drive the parsers: lengths 0, 1, 2; the delimiter bytes 00,
\* 0A, 0D, FF; wire types 0, 1, 2, 5 and 7; high bit set and clear
ByteVals == {0, 1, 2, 10, 13, 255}

\* longer PDUs after the repository's tests and the seed scenarios
SamplePdus ==
    { <<10, 2, 7, 7>>, <<128, 128, 0, 170, 170>>, <<1, 2, 7, 7>>, <<1, 0, 0, 0, 1, 7>>,
      <<9, 1, 2, 3, 4, 5, 6, 7, 8>>, <<13, 1, 2, 3, 4>>, <<1, 4, 0, 7>>, <<1, 0, 3, 7>>,
      <<2, 0, 7, 7>>, <<1, 2, 3, 4, 7, 7>>, <<1, 3, 9, 1, 4, 9, 9>>, <<1, 3, 9, 1, 1>>,
      <<10, 1, 7, 10, 2, 7, 7>> }

\* the corpora handed to a parser directly: every single short PDU, the sample
\* PDUs, a corpus of PDUs of three lengths, and every corpus of 2..MaxPdus PDUs of one or two bytes 0 or 1
ParseInputs ==
    {<<>>}
    \cup {<<p>> : p \in SeqsOver(ByteVals, 0, MaxLen) \cup SamplePdus}
    \cup { << <<1, 2, 3, 4, 7, 7>>, <<1, 2, 3>>, <<1, 2>> >> }
    \cup UNION {[1..n -> SeqsOver({0, 1}, 1, 2)] : n \in 2..MaxPdus}

\* engine datagrams after tests.rs and the seed scenarios: PDU i of a family
\* with payload length n; and one datagram longer than the 32 bytes at which
\* the FixedHeader generator stops
Datagram(family, n, i) ==
    CASE family = "length_prefix" -> <<n + i, 0>> \o Rep(i, n + i)
      [] family = "fixed_header" -> <<1, 2, 3, 4>> \o Rep(i, n)
      [] family = "tlv" -> <<1, n>> \o Rep(i, n)
      [] family = "bitmap" -> <<128, 128, 0>> \o Rep(170, n)
      [] family = "varint" -> <<10, n>> \o Rep(i, n)
      [] family = "delimited" -> Rep(7, n) \o <<10>> \o Rep(7, n)
      [] family = "nested" -> <<1, 2>> \o Rep(7, n)
      [] family = "uneven" -> Rep(i, n) \o <<10>> \o Rep(i, 3) \o <<10>> \o Rep(i, n)
      [] family = "noise" -> [k \in 1..n |-> 16 * i + k]

Families == {"length_prefix", "fixed_header", "tlv", "bitmap", "varint", "delimited", "nested", "uneven", "noise"}

EngineInputs ==
    {<<>>}
    \cup {[i \in 1..k |-> Datagram(f, n, i)] :
            f \in Families, n \in {0, 2, MaxPayload}, k \in 1..2}
    \cup {<<Rep(7, 33)>>}

\* engines: the default one, and the default with one field changed
EngineConfigs ==
    {EngineNew}
    \cup {[EngineNew EXCEPT !.max_depth = d] : d \in 0..MaxDepthCfg}
    \cup {[EngineNew EXCEPT !.top_k = k] : k \in {0, 1}}
    \cup {[EngineNew EXCEPT !.min_gain_epsilon = Bits(0), !.min_sdu_size = 1]}

\* registries: create_default_registry(), PluginRegistry::default(), the default
\* one without its generators, parsers or scorer, and one whose only parser
\* applies to none of its hypotheses
Registries ==
    { DefaultRegistry,
      PluginRegistryDefault,
      [DefaultRegistry EXCEPT !.generators = <<>>],
      [DefaultRegistry EXCEPT !.parsers = <<>>],
      [DefaultRegistry EXCEPT !.scorers = <<>>],
      [DefaultRegistry EXCEPT !.generators = <<"VarintGenerator">>, !.parsers = <<"TlvParser">>] }

\* registries whose candidate lists are short enough to follow every
\* completion order of the fan-out
SmallRegistries ==
    { [DefaultRegistry EXCEPT !.generators = <<"DelimiterGenerator">>],
      [DefaultRegistry EXCEPT !.generators = <<"VarintGenerator">>],
      [DefaultRegistry EXCEPT !.generators = <<"VarintGenerator">>, !.parsers = <<"TlvParser">>] }

\* ------------------------------------------------------------------ specifications
EngineIdle ==
    /\ depth = 0 /\ layers = <<>> /\ hypotheses = <<>> /\ slots = <<>> /\ order = <<>>
    /\ scored = <<>> /\ sorted = <<>> /\ stop = "" /\ result = NoResult
    /\ t_h = NoHypothesis /\ t_out = NoOutput /\ t_msgs = <<>>

\* infer(corpus, &registry) on an engine
Init ==
    /\ buffers \in EngineInputs
    /\ corpus = FromDatagrams(buffers)
    /\ engine \in EngineConfigs
    /\ registry \in Registries
    /\ pc = "loop" /\ current_corpus = corpus
    /\ EngineIdle

Next == Begin \/ FanOut \/ Sort \/ Select \/ Return

Spec == Init /\ [][Next]_vars

\* infer with the fan-out's closures run one by one in any order
InitPar ==
    /\ buffers \in EngineInputs
    /\ corpus = FromDatagrams(buffers)
    /\ engine \in EngineConfigs
    /\ registry \in SmallRegistries
    /\ pc = "loop" /\ current_corpus = corpus
    /\ EngineIdle

NextPar == Begin \/ (\E i \in 1..Len(hypotheses) : WorkerRun(i)) \/ Collect \/ Sort \/ Select \/ Return

SpecPar == InitPar /\ [][NextPar]_vars

\* the hypotheses a caller hands to a parser: the default generators' proposals
CallHypotheses(pdus) == GenerateAll(DefaultGenerators, pdus)

\* parser.parse_corpus(&corpus, &h) then scorer.score(&corpus, &parsed, &h),
\* called directly as tests.rs does
CallParser ==
    /\ pc = "call"
    /\ \E k \in 1..Len(CallHypotheses(CorpusPdus(buffers, corpus))) :
          LET h == CallHypotheses(CorpusPdus(buffers, corpus))[k] IN
          /\ t_h' = h
          /\ t_out' = ParseAndScore(registry, CorpusPdus(buffers, corpus), corpus.meta.total_bytes, h)
    /\ pc' = "called"
    /\ UNCHANGED <<inputVars, depth, current_corpus, layers, hypotheses, slots, order, scored,
                   sorted, stop, result, t_msgs>>

InitParse ==
    /\ buffers \in ParseInputs
    /\ corpus = FromDatagrams(buffers)
    /\ engine = EngineNew
    /\ registry = DefaultRegistry
    /\ pc = "call" /\ current_corpus = corpus
    /\ EngineIdle

NextParse == CallParser

SpecParse == InitParse /\ [][NextParse]_vars

\* ------------------------------------------------------------------ encoded PDUs
\* the most messages encoded into one PDU
MaxMsgs == 3

\* payloads to encode: empty, one byte, and bytes that read as lengths
Payloads == { <<>>, <<7>>, <<0, 1>>, <<2, 0, 0>> }

\* len.to_le_bytes() / to_be_bytes() of a length, on width bytes
LengthBytes(n, width, endian) ==
    LET le == [i \in 1..width |-> (n \div (256 ^ (i - 1))) % 256]
    IN IF endian = "Little" THEN le ELSE [i \in 1..width |-> le[width + 1 - i]]

\* one message of a length-prefixed PDU: offset filler bytes, the length, the payload
EncodeLengthPrefixed(payload, h, filler) ==
    Rep(filler, h.offset) \o LengthBytes(Len(payload), h.width, h.endian) \o payload

\* the test builds a PDU from payloads under a LengthPrefixBundle hypothesis
EncodePdu ==
    /\ pc = "encode"
    /\ \E k \in 1..30, filler \in {0, 255} :
          LET h == LengthPrefixGenerator(<< <<0>> >>)[k]
              pdu == Concat([m \in 1..Len(t_msgs) |-> EncodeLengthPrefixed(t_msgs[m], h, filler)])
          IN /\ t_h' = h
             /\ buffers' = <<pdu>>
             /\ corpus' = FromDatagrams(<<pdu>>)
             /\ current_corpus' = FromDatagrams(<<pdu>>)
    /\ pc' = "encoded"
    /\ UNCHANGED <<engine, registry, depth, layers, hypotheses, slots, order, scored, sorted,
                   stop, result, t_out, t_msgs>>

\* parser.parse_corpus(&corpus, &hypothesis) on the encoded PDU, then the scorer
ParseEncoded ==
    /\ pc = "encoded"
    /\ t_out' = ParseAndScore(registry, CorpusPdus(buffers, corpus), corpus.meta.total_bytes, t_h)
    /\ pc' = "called"
    /\ UNCHANGED <<inputVars, depth, current_corpus, layers, hypotheses, slots, order, scored,
                   sorted, stop, result, t_h, t_msgs>>

InitEncode ==
    /\ t_msgs \in UNION {[1..n -> Payloads] : n \in 0..MaxMsgs}
    /\ buffers = <<>>
    /\ corpus = FromDatagrams(<<>>)
    /\ engine = EngineNew
    /\ registry = DefaultRegistry
    /\ pc = "encode" /\ current_corpus = corpus
    /\ depth = 0 /\ layers = <<>> /\ hypotheses = <<>> /\ slots = <<>> /\ order = <<>>
    /\ scored = <<>> /\ sorted = <<>> /\ stop = "" /\ result = NoResult
    /\ t_h = NoHypothesis /\ t_out = NoOutput

NextEncode == EncodePdu \/ ParseEncoded

SpecEncode == InitEncode /\ [][NextEncode]_vars

\* ------------------------------------------------------------------ parser loops
\* One PDU parsed pass by pass: t_out is the frame of parse_corpus's loop body
\* for that PDU, with the position pos, the passes made so far, whether the
\* last pass broke out of the loop, and the segments and exceptions pushed.
LoopData == CorpusPdus(buffers, corpus)[1]

LoopFrame == [pos |-> 0, iterations |-> 0, stop |-> FALSE, segments |-> <<>>, exceptions |-> <<>>]

\* while pos < data.len() { body }
Iterate(st) ==
    /\ pc = "iterate"
    /\ ~t_out.stop /\ t_out.pos < Len(LoopData)
    /\ t_out' = [pos |-> st.pos, iterations |-> t_out.iterations + 1, stop |-> st.stop,
                 segments |-> t_out.segments \o st.segments,
                 exceptions |-> t_out.exceptions \o st.exceptions]
    /\ UNCHANGED <<inputVars, pc, depth, current_corpus, layers, hypotheses, slots, order, scored,
                   sorted, stop, result, t_h, t_msgs>>

LengthPrefixIterate ==
    t_h.tag = "LengthPrefixBundle" /\ Iterate(LengthPrefixStep(LoopData, t_h, t_out.pos))

DelimiterIterate ==
    t_h.tag = "DelimiterBundle" /\ Iterate(DelimiterStep(LoopData, t_h.pattern, t_out.pos))

TlvIterate ==
    t_h.tag = "Tlv" /\ Iterate(TlvStep(LoopData, t_h, t_out.pos))

VarintIterate ==
    t_h.tag = "VarintKeyWireType" /\ Iterate(VarintStep(LoopData, t_h, t_out.pos))

\* the loop is left and parsed_pdus.push(ParsedPdu { segments, exceptions }) runs
LoopExit ==
    /\ pc = "iterate"
    /\ t_out.stop \/ ~(t_out.pos < Len(LoopData))
    /\ pc' = "parsed"
    /\ UNCHANGED <<inputVars, depth, current_corpus, layers, hypotheses, slots, order, scored,
                   sorted, stop, result, testVars>>

\* the hypotheses of the four parsers that loop over a PDU
LoopHypotheses(pdus) ==
    LET hyps == CallHypotheses(pdus) IN
    {h \in {hyps[k] : k \in 1..Len(hyps)} :
        h.tag \in {"LengthPrefixBundle", "DelimiterBundle", "Tlv", "VarintKeyWireType"}}

InitLoop ==
    /\ buffers \in {<<p>> : p \in SeqsOver(ByteVals, 0, MaxLen) \cup SamplePdus}
    /\ corpus = FromDatagrams(buffers)
    /\ engine = EngineNew
    /\ registry = DefaultRegistry
    /\ pc = "iterate" /\ current_corpus = corpus
    /\ depth = 0 /\ layers = <<>> /\ hypotheses = <<>> /\ slots = <<>> /\ order = <<>>
    /\ scored = <<>> /\ sorted = <<>> /\ stop = "" /\ result = NoResult
    /\ t_h \in LoopHypotheses(buffers)
    /\ t_out = LoopFrame /\ t_msgs = <<>>

NextLoop == LengthPrefixIterate \/ DelimiterIterate \/ TlvIterate \/ VarintIterate \/ LoopExit

SpecLoop == InitLoop /\ [][NextLoop]_vars

\* ------------------------------------------------------------------ includes_header
\* parser.parse_corpus(&corpus, &h) then the scorer, for a LengthPrefixBundle
\* built by the caller with either value of includes_header
CallLengthPrefixParser ==
    /\ pc = "call"
    /\ \E offset \in 0..4, k \in 1..3, e \in 1..2, includes_header \in BOOLEAN :
          LET h == LengthPrefixBundle(offset, Widths[k], Endians[e], includes_header) IN
          /\ t_h' = h
          /\ t_out' = ParseAndScore(registry, CorpusPdus(buffers, corpus), corpus.meta.total_bytes, h)
    /\ pc' = "called"
    /\ UNCHANGED <<inputVars, depth, current_corpus, layers, hypotheses, slots, order, scored,
                   sorted, stop, result, t_msgs>>

NextHeader == CallLengthPrefixParser

SpecHeader == InitParse /\ [][NextHeader]_vars

\* ------------------------------------------------------------------ properties
\* the corpus infer analysed to build layer d
ParentCorpus(d) == IF d = 1 THEN corpus ELSE layers[d - 1].sdu_corpus.corpus

\* the Sdu segments of one parsed PDU that are long enough to be kept
KeptSdus(segments, min_sdu_size) ==
    SelectSeq(segments, LAMBDA sg : sg.kind = "Sdu" /\ SegLen(sg) >= min_sdu_size)

\* for each kept Sdu segment of a parent corpus, in order: the parent PDU and the segment
KeptOf(parent, parsed, min_sdu_size) ==
    Concat([i \in 1..Min(Len(parent.items), Len(parsed)) |->
              LET kept == KeptSdus(parsed[i].segments, min_sdu_size)
              IN [k \in 1..Len(kept) |-> [pdu |-> parent.items[i], seg |-> kept[k]]]])

C2_SegmentsInsidePdu ==
    (pc = "called" /\ ~t_out.none) =>
        \A i \in 1..Len(t_out.parsed) :
            \A k \in 1..Len(t_out.parsed[i].segments) :
                LET sg == t_out.parsed[i].segments[k] IN
                /\ 0 <= sg.start /\ sg.start <= sg.end
                /\ sg.end <= Len(CorpusPdus(buffers, corpus)[i])

\* a call whose output has an Error segment, a MessageBoundary segment and an Sdu
\* segment that ends at the PDU's last byte
C2_Witness ==
    /\ pc = "called" /\ ~t_out.none
    /\ \E i \in 1..Len(t_out.parsed) :
          /\ \E k \in 1..Len(t_out.parsed[i].segments) : t_out.parsed[i].segments[k].kind = "Error"
          /\ \E k \in 1..Len(t_out.parsed[i].segments) :
                t_out.parsed[i].segments[k].kind = "MessageBoundary"
    /\ \E i \in 1..Len(t_out.parsed) :
          \E k \in 1..Len(t_out.parsed[i].segments) :
              /\ t_out.parsed[i].segments[k].kind = "Sdu"
              /\ t_out.parsed[i].segments[k].end = Len(CorpusPdus(buffers, corpus)[i])

\* C3: every PduRef of a layer's sdu_corpus has the buffer handle of the parent
\* PDU it was extracted from, and that handle is one of the input corpus's buffers.
C3_SameBufferHandle ==
    \A d \in 1..Len(layers) :
        layers[d].sdu_corpus.some =>
            LET items == layers[d].sdu_corpus.corpus.items
                kept == KeptOf(ParentCorpus(d), layers[d].parsed, engine.min_sdu_size)
            IN /\ Len(items) = Len(kept)
               /\ \A k \in 1..Len(items) :
                     /\ items[k].data = kept[k].pdu.data
                     /\ \E j \in 1..Len(corpus.items) : corpus.items[j].data = items[k].data
                     /\ items[k].data \in 1..Len(buffers)

\* two layers deep, the second layer's SDUs taken from the second buffer too
C3_Witness ==
    /\ Len(layers) >= 2
    /\ layers[2].sdu_corpus.some
    /\ \E k \in 1..Len(layers[2].sdu_corpus.corpus.items) :
          layers[2].sdu_corpus.corpus.items[k].data = 2

\* the gain of layer d: the raw baseline of the corpus parsed at that depth
\* minus the layer's total_bits
LayerGain(d) ==
    NumSub(RawScore(buffers, ParentCorpus(d)).total_bits, layers[d].score.total_bits)

\* every layer's gain is at least min_gain_epsilon
LayersHaveGain ==
    \A d \in 1..Len(layers) : NumGe(LayerGain(d), engine.min_gain_epsilon)

\* a best candidate whose gain is below the threshold adds no layer and leaves the loop
BelowThresholdStops ==
    (/\ pc = "select"
     /\ Take(sorted, engine.top_k) # <<>>
     /\ NumLt(NumSub(RawScore(buffers, current_corpus).total_bits, sorted[1].score.total_bits),
              engine.min_gain_epsilon))
    => (layers' = layers /\ pc' = "done")

\* C4: every layer of infer has raw baseline minus total_bits >= min_gain_epsilon,
\* and a best candidate below the threshold (total_bits = +infinity included)
\* produces no layer and ends the recursion.
C4_GainGate == []LayersHaveGain /\ [][BelowThresholdStops]_vars

\* a layer was adopted and the next depth ended on a best candidate without enough gain
C4_Witness ==
    /\ Len(layers) >= 1
    /\ stop = "gain"
    /\ sorted # <<>>

\* the PDUs of a parsed corpus that have no Error segment
CleanPdus(parsed) ==
    {i \in 1..Len(parsed) :
        \A k \in 1..Len(parsed[i].segments) : parsed[i].segments[k].kind # "Error"}

\* C5: MdlScorer::score gives total_bits = +infinity to every parsed corpus whose
\* parse_success_ratio is below 0.95, an empty ParsedCorpus included.
C5_PsrGate ==
    (pc = "called" /\ ~t_out.none) =>
        ((t_out.parsed = <<>> \/ Cardinality(CleanPdus(t_out.parsed)) * 100 < 95 * Len(t_out.parsed))
            => t_out.score.total_bits = PosInf)

\* two PDUs, one with an Error segment, none with an exception: the ratio
\* alone rejects the hypothesis
C5_Witness ==
    /\ pc = "called" /\ ~t_out.none
    /\ Len(t_out.parsed) = 2
    /\ Cardinality(CleanPdus(t_out.parsed)) = 1
    /\ \A i \in 1..Len(t_out.parsed) : t_out.parsed[i].exceptions = <<>>
    /\ t_out.score.total_bits = PosInf

\* an exception string with "extends beyond PDU" or "Length too large for remaining data"
IsOverflowException(exc) ==
    \/ Contains(exc, <<"extends", "beyond", "PDU">>)
    \/ Contains(exc, <<"Length", "too", "large", "for", "remaining", "data">>)

\* C6: MdlScorer::score gives total_bits = +infinity whenever a ParsedPdu has an
\* exception containing "extends beyond PDU" or "Length too large for remaining
\* data", however many other PDUs parsed cleanly.
C6_OverflowRejected ==
    (pc = "called" /\ ~t_out.none) =>
        ((\E i \in 1..Len(t_out.parsed) : \E e \in 1..Len(t_out.parsed[i].exceptions) :
              IsOverflowException(t_out.parsed[i].exceptions[e]))
            => t_out.score.total_bits = PosInf)

\* two PDUs without an Error segment (success ratio 1), the first without an
\* exception, the second with an overflow exception
C6_Witness ==
    /\ pc = "called" /\ ~t_out.none
    /\ Len(t_out.parsed) = 2
    /\ CleanPdus(t_out.parsed) = {1, 2}
    /\ t_out.parsed[1].exceptions = <<>>
    /\ \E e \in 1..Len(t_out.parsed[2].exceptions) :
          IsOverflowException(t_out.parsed[2].exceptions[e])
    /\ t_out.score.total_bits = PosInf

\* what a sequential run computes from the corpus parsed for layer d: the
\* candidates, parsed and scored in generation order, sorted, the first top_k kept
SequentialTopK(d) ==
    LET pdus == CorpusPdus(buffers, ParentCorpus(d))
    IN Take(SortByScore(ScoreAll(registry, pdus, ParentCorpus(d).meta.total_bytes,
                                 GenerateAll(registry.generators, pdus))),
            engine.top_k)

GenIndex(h) == CHOOSE k \in 1..Len(hypotheses) : hypotheses[k] = h

\* C8: of two candidates of one depth with equal total_bits the one generated
\* earlier comes first in the sorted list, and the layer's hypothesis is the
\* earliest generated of the candidates with the least total_bits.
C8_EarlierGeneratedFirst ==
    /\ pc = "select" =>
          \A i \in 1..(Len(sorted) - 1) :
              /\ ~ScoreLess(sorted[i + 1].score, sorted[i].score)
              /\ sorted[i].score.total_bits = sorted[i + 1].score.total_bits
                    => GenIndex(sorted[i].hypothesis) < GenIndex(sorted[i + 1].hypothesis)
    /\ (pc = "loop" /\ depth >= 1) =>
          /\ \A m \in 1..Len(scored) : ~ScoreLess(scored[m].score, layers[depth].score)
          /\ \A m \in 1..Len(scored) :
                scored[m].score.total_bits = layers[depth].score.total_bits
                    => GenIndex(layers[depth].hypothesis) <= GenIndex(scored[m].hypothesis)

\* a layer adopted at a depth where a later-generated candidate had the same
\* finite total_bits as the adopted one, and where candidates of different
\* generators were tied as well
C8_Witness ==
    /\ pc = "loop" /\ depth >= 1
    /\ layers[depth].score.total_bits.kind = "fin"
    /\ \E m \in 1..Len(scored) :
          /\ scored[m].score.total_bits = layers[depth].score.total_bits
          /\ scored[m].hypothesis # layers[depth].hypothesis
    /\ \E i \in 1..(Len(sorted) - 1) :
          /\ sorted[i].score.total_bits = sorted[i + 1].score.total_bits
          /\ sorted[i].hypothesis.tag # sorted[i + 1].hypothesis.tag

\* the mean PDU length of a corpus is below min_sdu_size
MeanBelow(c, min_sdu_size) ==
    LET total == SumSeq([i \in 1..Len(c.items) |-> c.items[i].end - c.items[i].start])
    IN c.items # <<>> /\ total < min_sdu_size * Len(c.items)

\* no more layers than max_depth; no layer was built at a depth where a stop
\* condition held; and a layer without an SDU corpus is the last one
StopsAtFirstCondition ==
    /\ Len(layers) <= engine.max_depth
    /\ \A d \in 1..Len(layers) :
          /\ ParentCorpus(d).items # <<>>
          /\ ~MeanBelow(ParentCorpus(d), engine.min_sdu_size)
          /\ GenerateAll(registry.generators, CorpusPdus(buffers, ParentCorpus(d))) # <<>>
          /\ layers[d].all_hypotheses # <<>>
          /\ NumGe(LayerGain(d), engine.min_gain_epsilon)
          /\ d < Len(layers) => layers[d].sdu_corpus.some
    /\ (Len(layers) >= 1 /\ ~layers[Len(layers)].sdu_corpus.some) => pc \in {"done", "returned"}
    /\ pc = "returned" => result.returned /\ result.layers = layers

\* how far infer's control is from its return, within one round of the loop
PcRank ==
    CASE pc = "loop" -> 5
      [] pc = "fanout" -> 4
      [] pc = "sort" -> 3
      [] pc = "select" -> 2
      [] pc = "done" -> 1
      [] pc = "returned" -> 0

\* a bound on the steps infer has left: the rounds left, and the rest of this round
StepsLeft == 5 * (engine.max_depth - depth) + PcRank

\* C9: infer terminates (every step lowers the number of steps left, which
\* never falls below 0 and is 0 only once infer has returned) and returns at
\* most max_depth layers; the recursion stops at the first depth where the
\* corpus is empty, the mean PDU length is below min_sdu_size, no candidate is
\* generated or scored, the gain is below min_gain_epsilon, or no SDU corpus
\* is extracted.
C9_TerminatesWithinDepth ==
    /\ [][StepsLeft' < StepsLeft]_vars
    /\ [](StepsLeft >= 0 /\ (PcRank = 0 => result.returned))
    /\ []StopsAtFirstCondition

\* infer returned max_depth layers, stopped by the bound on depth
C9_Witness ==
    /\ pc = "returned"
    /\ engine.max_depth >= 1
    /\ Len(result.layers) = engine.max_depth
    /\ stop = "max_depth"

\* no parser of the registry is applicable to a hypothesis its generators propose
NoApplicableParser ==
    \A k \in 1..Len(GenerateAll(registry.generators, CorpusPdus(buffers, corpus))) :
        \A q \in 1..Len(registry.parsers) :
            ~Applicable(registry.parsers[q],
                        GenerateAll(registry.generators, CorpusPdus(buffers, corpus))[k])

\* C10: infer never fails; for a corpus with no PDUs, or with a mean PDU length
\* below min_sdu_size, or with a registry without an applicable parser or
\* without a scorer, it returns zero layers and the input corpus.
C10_EmptyResult ==
    /\ pc = "returned" => result.returned /\ result.corpus = corpus
    /\ (/\ pc = "returned"
        /\ \/ corpus.items = <<>>
           \/ MeanBelow(corpus, engine.min_sdu_size)
           \/ NoApplicableParser
           \/ registry.scorers = <<>>)
       => result.layers = <<>>

\* infer returned for a corpus it could parse, from a registry without a scorer
C10_Witness ==
    /\ pc = "returned"
    /\ registry.scorers = <<>> /\ registry.parsers # <<>> /\ hypotheses # <<>>
    /\ corpus.items # <<>> /\ ~MeanBelow(corpus, engine.min_sdu_size)
    /\ result.layers = <<>> /\ result.corpus = corpus

\* C11: PluginRegistry::default() has six generators, six parsers and one MDL
\* scorer registered, in the order of create_default_registry().
C11_DefaultIsPreRegistered ==
    registry = PluginRegistryDefault =>
        /\ Len(registry.generators) = 6 /\ Len(registry.parsers) = 6
        /\ Len(registry.scorers) = 1
        /\ registry = DefaultRegistry

\* C12: each of the six built-in generators proposes nothing for a corpus
\* with no PDUs.
C12_EmptyCorpusEmptyProposal ==
    corpus.items = <<>> =>
        \A g \in 1..Len(DefaultGenerators) :
            Propose(DefaultGenerators[g], CorpusPdus(buffers, corpus)) = <<>>

\* the identity of one Score, computed from the fields of its breakdown
ScoreIdentity(s) ==
    LET b == s.breakdown
        fields == <<b.mdl_model_bits, b.mdl_data_bits, b.alignment_gain_bits,
                    b.entropy_drop_bits, b.penalties_bits>>
    IN IF \A i \in 1..5 : fields[i].kind = "fin"
       THEN s.total_bits = Fin(b.mdl_model_bits.v + b.mdl_data_bits.v - b.alignment_gain_bits.v
                               - b.entropy_drop_bits.v + b.penalties_bits.v)
       ELSE s.total_bits = NumAdd(NumSub(NumSub(NumAdd(b.mdl_model_bits, b.mdl_data_bits),
                                                b.alignment_gain_bits),
                                         b.entropy_drop_bits),
                                  b.penalties_bits)

\* C13: every Score of a run (the candidates' scores collected and sorted, the
\* layers' scores and those of their all_hypotheses, and the raw baseline) has
\* total_bits = mdl_model_bits + mdl_data_bits - alignment_gain_bits
\* - entropy_drop_bits + penalties_bits.
C13_TotalIsSumOfBreakdown ==
    /\ \A k \in 1..Len(scored) : ScoreIdentity(scored[k].score)
    /\ \A k \in 1..Len(sorted) : ScoreIdentity(sorted[k].score)
    /\ \A d \in 1..Len(layers) :
          /\ ScoreIdentity(layers[d].score)
          /\ \A k \in 1..Len(layers[d].all_hypotheses) :
                ScoreIdentity(layers[d].all_hypotheses[k].score)
    /\ ScoreIdentity(RawScore(buffers, current_corpus))

\* sorted candidates of which one has a positive entropy drop and positive
\* penalties, and one was rejected with infinite terms
C13_Witness ==
    /\ pc = "select"
    /\ \E k \in 1..Len(sorted) :
          /\ sorted[k].score.total_bits.kind = "fin"
          /\ sorted[k].score.breakdown.entropy_drop_bits.v > 0
          /\ sorted[k].score.breakdown.penalties_bits.v > 0
    /\ \E k \in 1..Len(sorted) : sorted[k].score.total_bits = PosInf

\* the segments of the messages m.. of a length-prefixed PDU whose message m
\* starts at pos
RECURSIVE MessageSegments(_, _, _, _)
MessageSegments(msgs, h, m, pos) ==
    IF m > Len(msgs) THEN <<>>
    ELSE LET header_end == pos + h.offset + h.width
             message_end == header_end + Len(msgs[m])
         IN <<Seg("Field", "length", pos, header_end)>>
            \o (IF msgs[m] # <<>> THEN <<Seg("Sdu", "", header_end, message_end)>> ELSE <<>>)
            \o (IF m < Len(msgs) THEN <<Seg("MessageBoundary", "", message_end, message_end)>>
                ELSE <<>>)
            \o MessageSegments(msgs, h, m + 1, message_end)

\* C14: a PDU that is a concatenation of messages (offset filler bytes, the
\* payload's length on width bytes in the given endianness, the payload),
\* parsed with the matching LengthPrefixBundle hypothesis, has no exception and
\* no Error segment; its segments are, per message, Field("length") over
\* [pos, header_end), Sdu over the payload if it is not empty, and a zero-width
\* MessageBoundary after every message but the last; each Sdu reads the payload.
C14_LengthPrefixRoundTrip ==
    (pc = "called" /\ t_h.tag = "LengthPrefixBundle" /\ ~t_out.none) =>
        LET pp == t_out.parsed[1]
            sdus == SelectSeq(pp.segments, LAMBDA sg : sg.kind = "Sdu")
            payloads == SelectSeq(t_msgs, LAMBDA pl : pl # <<>>)
        IN /\ pp.exceptions = <<>>
           /\ pp.segments = MessageSegments(t_msgs, t_h, 1, 0)
           /\ Len(sdus) = Len(payloads)
           /\ \A k \in 1..Len(sdus) :
                 Slice(buffers[1], sdus[k].start, sdus[k].end) = payloads[k]

\* three messages, the second with an empty payload, behind a filler and a
\* length of more than one byte
C14_Witness ==
    /\ pc = "called" /\ t_h.tag = "LengthPrefixBundle" /\ ~t_out.none
    /\ Len(t_msgs) = 3 /\ t_msgs[1] # <<>> /\ t_msgs[2] = <<>> /\ t_msgs[3] # <<>>
    /\ t_h.offset > 0 /\ t_h.width > 1
    /\ Len(SelectSeq(t_out.parsed[1].segments, LAMBDA sg : sg.kind = "Sdu")) = 2

\* C15: with the default registry every layer of infer, and of the result it
\* returns, has a finite total_bits and a parse_success_ratio of at least 0.95:
\* its parsed corpus has no overflow exception and at least 95% of its PDUs
\* have no Error segment.
C15_LayersNotRejected ==
    registry = DefaultRegistry =>
        /\ \A d \in 1..Len(layers) :
              /\ layers[d].score.total_bits.kind = "fin"
              /\ ~RatioBelowMin(layers[d].score.breakdown.parse_success_ratio)
              /\ Cardinality(CleanPdus(layers[d].parsed)) * 100 >= 95 * Len(layers[d].parsed)
              /\ layers[d].parsed # <<>>
              /\ \A i \in 1..Len(layers[d].parsed) :
                    \A e \in 1..Len(layers[d].parsed[i].exceptions) :
                        ~IsOverflowException(layers[d].parsed[i].exceptions[e])
        /\ pc = "returned" => result.layers = layers

\* infer returned layers although, at the last depth it scored, one candidate
\* was rejected for an overflow exception and another for its success ratio
C15_Witness ==
    /\ registry = DefaultRegistry
    /\ pc = "returned" /\ Len(result.layers) >= 1
    /\ \E k \in 1..Len(scored) :
          /\ scored[k].score.total_bits = PosInf
          /\ \E i \in 1..Len(scored[k].parsed) : \E e \in 1..Len(scored[k].parsed[i].exceptions) :
                IsOverflowException(scored[k].parsed[i].exceptions[e])
    /\ \E k \in 1..Len(scored) :
          /\ scored[k].score.total_bits = PosInf
          /\ \A i \in 1..Len(scored[k].parsed) : scored[k].parsed[i].exceptions = <<>>
          /\ Cardinality(CleanPdus(scored[k].parsed)) * 100 < 95 * Len(scored[k].parsed)

\* the metadata of a corpus counts its items and their bytes
MetaCounts(c) ==
    /\ c.meta.pdu_count = Len(c.items)
    /\ c.meta.total_bytes = SumSeq([i \in 1..Len(c.items) |-> c.items[i].end - c.items[i].start])

\* C16: the corpus built by from_datagrams and every SDU corpus the engine
\* extracts have meta.total_bytes = the sum of len() of their PduRefs and
\* meta.pdu_count = the number of items; every PduRef of an extracted SDU
\* corpus has len() >= min_sdu_size.
C16_CorpusMetaCounts ==
    /\ MetaCounts(corpus)
    /\ MetaCounts(current_corpus)
    /\ \A d \in 1..Len(layers) :
          layers[d].sdu_corpus.some =>
              /\ MetaCounts(layers[d].sdu_corpus.corpus)
              /\ \A k \in 1..Len(layers[d].sdu_corpus.corpus.items) :
                    LET p == layers[d].sdu_corpus.corpus.items[k]
                    IN p.end - p.start >= engine.min_sdu_size

\* an SDU corpus extracted from a parse of which an Sdu segment shorter than
\* min_sdu_size was left out, with fewer bytes than the corpus it came from
C16_Witness ==
    \E d \in 1..Len(layers) :
        /\ layers[d].sdu_corpus.some
        /\ layers[d].sdu_corpus.corpus.meta.total_bytes < ParentCorpus(d).meta.total_bytes
        /\ \E i \in 1..Len(layers[d].parsed) : \E k \in 1..Len(layers[d].parsed[i].segments) :
              LET sg == layers[d].parsed[i].segments[k]
              IN sg.kind = "Sdu" /\ SegLen(sg) < engine.min_sdu_size

\* the big-endian number in the bytes of a length field
DecodedLength(data, lf) ==
    CASE SegLen(lf) = 1 -> At(data, lf.start)
      [] SegLen(lf) = 2 -> U16FromBe(At(data, lf.start), At(data, lf.start + 1))
      [] SegLen(lf) = 4 -> U32FromBe(At(data, lf.start), At(data, lf.start + 1),
                                     At(data, lf.start + 2), At(data, lf.start + 3))

\* what C17 says of the segments of one PDU parsed under h
TlvHeaderCounted(data, h, pp) ==
    \A k \in 1..Len(pp.segments) :
        LET sg == pp.segments[k] IN
        /\ sg.kind = "Sdu" =>
              k > 1 /\ pp.segments[k - 1].kind = "Field" /\ pp.segments[k - 1].name = "length"
        /\ (sg.kind = "Field" /\ sg.name = "length") =>
              LET decoded == DecodedLength(data, sg)
                  tag_start == sg.start - h.len_offset + h.tag_offset
                  header_size == sg.end - tag_start
              IN /\ sg.end = sg.start + LengthFieldSize(h.len_rule)
                 /\ decoded < header_size =>
                       /\ k = Len(pp.segments)
                       /\ pp.exceptions # <<>>
                       /\ pp.exceptions[Len(pp.exceptions)] = ExcLengthTooSmall
                 /\ (k < Len(pp.segments) /\ pp.segments[k + 1].kind = "Sdu") =>
                       LET sdu == pp.segments[k + 1] IN
                       /\ decoded >= header_size
                       /\ sdu.start = sg.end
                       /\ SegLen(sdu) = decoded - header_size
                       /\ sdu.end = tag_start + decoded
                       /\ IF k + 1 = Len(pp.segments) THEN sdu.end = Len(data)
                          ELSE pp.segments[k + 2].start = sdu.end

\* C17: under a Tlv hypothesis with length_includes_header and a definite
\* length rule the value length is the decoded length minus the header size
\* (len_start + len_field_size - tag_start); a decoded length smaller than the
\* header size stops the PDU with an exception; an emitted Sdu ends at
\* tag_start + decoded length, where the next TLV starts.
C17_TlvLengthCountsHeader ==
    (pc = "called" /\ ~t_out.none /\ t_h.tag = "Tlv" /\ t_h.length_includes_header) =>
        \A i \in 1..Len(t_out.parsed) :
            TlvHeaderCounted(CorpusPdus(buffers, corpus)[i], t_h, t_out.parsed[i])

\* a PDU of two TLVs whose lengths count their headers, both values emitted
C17_Witness ==
    /\ pc = "called" /\ ~t_out.none /\ t_h.tag = "Tlv" /\ t_h.length_includes_header
    /\ Len(t_out.parsed) = 1
    /\ t_out.parsed[1].exceptions = <<>>
    /\ Len(SelectSeq(t_out.parsed[1].segments, LAMBDA sg : sg.kind = "Sdu")) = 2
    /\ t_out.score.total_bits.kind = "fin"

\* C18: the FixedHeader parser gives a PDU shorter than len exactly one Error
\* segment over [0, len(pdu)); any other PDU gets Pci over [0, len), followed,
\* only when len < len(pdu), by exactly one Sdu over [len, len(pdu)); no other
\* segment and no exception.
C18_FixedHeaderSegments ==
    (pc = "called" /\ ~t_out.none /\ t_h.tag = "FixedHeader") =>
        /\ Len(t_out.parsed) = Len(corpus.items)
        /\ \A i \in 1..Len(t_out.parsed) :
              LET n == corpus.items[i].end - corpus.items[i].start
                  segs == t_out.parsed[i].segments
              IN /\ t_out.parsed[i].exceptions = <<>>
                 /\ Len(segs) = (IF n > t_h.len THEN 2 ELSE 1)
                 /\ n < t_h.len =>
                       segs[1].kind = "Error" /\ segs[1].start = 0 /\ segs[1].end = n
                 /\ n >= t_h.len =>
                       segs[1].kind = "Pci" /\ segs[1].start = 0 /\ segs[1].end = t_h.len
                 /\ n > t_h.len =>
                       segs[2].kind = "Sdu" /\ segs[2].start = t_h.len /\ segs[2].end = n

\* a corpus with a PDU longer than the header, one of the header's length and
\* one shorter than it
C18_Witness ==
    /\ pc = "called" /\ ~t_out.none /\ t_h.tag = "FixedHeader"
    /\ \E i \in 1..Len(t_out.parsed) : Len(t_out.parsed[i].segments) = 2
    /\ \E i \in 1..Len(t_out.parsed) :
          corpus.items[i].end = t_h.len /\ t_out.parsed[i].segments[1].kind = "Pci"
    /\ \E i \in 1..Len(t_out.parsed) : t_out.parsed[i].segments[1].kind = "Error"

\* the length C19 gives the bitmap field: up to and including the first of the
\* max_bytes bytes from start whose bit cont_bit is stop_value, else max_bytes
ClaimedBitmapLen(data, h) ==
    LET stops == {p \in h.start..(Min(h.start + h.max_bytes, Len(data)) - 1) :
                     BitOf(At(data, p), h.cont_bit) = h.stop_value}
    IN IF stops = {} THEN h.max_bytes
       ELSE (CHOOSE p \in stops : \A q \in stops : p <= q) + 1 - h.start

\* C19: for a PDU with len(pdu) >= start the ExtensibleBitmap parser's
\* segments are Pci over [0, start) if start > 0, Field("bitmap") from start up
\* to and including the first byte whose bit cont_bit equals stop_value, or over
\* max_bytes bytes if none of them has it, and an Sdu over the residue if that
\* is not empty.
C19_BitmapField ==
    (pc = "called" /\ ~t_out.none /\ t_h.tag = "ExtensibleBitmap") =>
        \A i \in 1..Len(t_out.parsed) :
            LET data == CorpusPdus(buffers, corpus)[i]
                bitmap_end == t_h.start + ClaimedBitmapLen(data, t_h)
            IN Len(data) >= t_h.start =>
                 t_out.parsed[i].segments =
                     (IF t_h.start > 0 THEN <<Seg("Pci", "", 0, t_h.start)>> ELSE <<>>)
                     \o <<Seg("Field", "bitmap", t_h.start, bitmap_end)>>
                     \o (IF bitmap_end < Len(data) THEN <<Seg("Sdu", "", bitmap_end, Len(data))>>
                         ELSE <<>>)

\* what C20 says of the segments of one PDU: key by key, by the low three bits
\* of the key's first byte
VarintDispatch(data, pp) ==
    \A k \in 1..Len(pp.segments) :
        LET key == pp.segments[k] IN
        (key.kind = "Field" /\ key.name = "key") =>
            LET wire_type == At(data, key.start) % 8
                p == key.end
                last == k = Len(pp.segments)
            IN /\ (wire_type = 2 /\ p < Len(data) /\ p + 1 + At(data, p) <= Len(data)) =>
                     /\ Len(pp.segments) >= k + 2
                     /\ pp.segments[k + 1] = Seg("Field", "value_length", p, p + 1)
                     /\ pp.segments[k + 2] = Seg("Sdu", "", p + 1, p + 1 + At(data, p))
                     /\ IF Len(pp.segments) > k + 2
                        THEN pp.segments[k + 3].kind = "Field" /\ pp.segments[k + 3].name = "key"
                             /\ pp.segments[k + 3].start = p + 1 + At(data, p)
                        ELSE p + 1 + At(data, p) = Len(data) \/ pp.exceptions = <<ExcVarintKeyTooLong>>
               /\ (wire_type = 2 /\ ~(p < Len(data) /\ p + 1 + At(data, p) <= Len(data))) =>
                     last /\ Len(pp.exceptions) = 1
               /\ wire_type \notin {0, 1, 2, 5} =>
                     last /\ pp.exceptions = <<ExcUnknownWireType>>

\* C20: after a key whose low three bits are 2 the next byte is the length L;
\* when pos + 1 + L fits in the PDU the Varint parser emits Field("key"),
\* Field("value_length") over that byte and Sdu over the L bytes after it, and
\* goes on after them; a wire type other than 0, 1, 2 and 5 records an
\* exception and stops the PDU.
C20_VarintWireTypes ==
    (pc = "called" /\ ~t_out.none /\ t_h.tag = "VarintKeyWireType") =>
        \A i \in 1..Len(t_out.parsed) :
            VarintDispatch(CorpusPdus(buffers, corpus)[i], t_out.parsed[i])

\* a PDU of two length-delimited fields, both emitted
C20_Witness ==
    /\ pc = "called" /\ ~t_out.none /\ t_h.tag = "VarintKeyWireType"
    /\ Len(t_out.parsed) = 1 /\ t_out.parsed[1].exceptions = <<>>
    /\ Len(SelectSeq(t_out.parsed[1].segments, LAMBDA sg : sg.kind = "Sdu")) = 2
    /\ Len(t_out.parsed[1].segments) = 6

\* what C21 says of the segments of one PDU parsed under a delimiter pattern
DelimiterCover(data, pattern, pp) ==
    LET segs == pp.segments IN
    /\ pp.exceptions = <<>>
    /\ \A k \in 1..Len(segs) : segs[k].kind \in {"Sdu", "MessageBoundary"}
    /\ (data = <<>>) = (segs = <<>>)
    /\ segs # <<>> => segs[1].start = 0 /\ segs[Len(segs)].end = Len(data)
    /\ \A k \in 1..(Len(segs) - 1) : segs[k].end = segs[k + 1].start
    /\ \A k \in 1..Len(segs) :
          /\ segs[k].start < segs[k].end
          /\ segs[k].kind = "MessageBoundary" =>
                Slice(data, segs[k].start, segs[k].end) = pattern
          /\ segs[k].kind = "Sdu" =>
                \A i \in segs[k].start..(segs[k].end - Len(pattern)) :
                    Slice(data, i, i + Len(pattern)) # pattern

\* C21: the Delimiter parser's segments are only Sdu and MessageBoundary,
\* contiguous and in order, covering [0, len(pdu)) exactly once; each
\* MessageBoundary covers an occurrence of the pattern, no Sdu contains one, and
\* there is no Error segment and no exception.
C21_DelimiterCoversPdu ==
    (pc = "called" /\ ~t_out.none /\ t_h.tag = "DelimiterBundle") =>
        /\ Len(t_out.parsed) = Len(corpus.items)
        /\ \A i \in 1..Len(t_out.parsed) :
              DelimiterCover(CorpusPdus(buffers, corpus)[i], t_h.pattern, t_out.parsed[i])

\* a PDU cut by a boundary into an Sdu before it and an Sdu after it
C21_Witness ==
    /\ pc = "called" /\ ~t_out.none /\ t_h.tag = "DelimiterBundle"
    /\ \E i \in 1..Len(t_out.parsed) :
          LET segs == t_out.parsed[i].segments
          IN /\ Len(segs) = 3
             /\ segs[1].kind = "Sdu" /\ segs[2].kind = "MessageBoundary" /\ segs[3].kind = "Sdu"

\* C22: for every parser a ParsedPdu has a non-empty exceptions list exactly
\* when it has an Error segment, so that every PDU on which parsing stopped
\* with an error is not a success for parse_success_ratio.
C22_ExceptionIffErrorSegment ==
    (pc = "called" /\ ~t_out.none) =>
        \A i \in 1..Len(t_out.parsed) :
            (t_out.parsed[i].exceptions # <<>>) <=> ~IsSuccess(t_out.parsed[i])

\* the Error segments that stand for a reading step without enough bytes
ShortReadErrors ==
    {"Incomplete length field", "PDU too short", "PDU too short for bitmap start", "Incomplete tag"}

\* C23: in every parser a reading step that finds too few bytes (incomplete
\* length field, PDU shorter than the fixed header or the bitmap start,
\* incomplete tag, length, fixed32 or fixed64) appends an exception string to
\* the PDU's exceptions and stops the PDU, and the segments emitted before it
\* stay in the ParsedPdu.
C23_ShortReadRecordsException ==
    (pc = "called" /\ ~t_out.none) =>
        \A i \in 1..Len(t_out.parsed) :
            LET pp == t_out.parsed[i]
                data == CorpusPdus(buffers, corpus)[i]
            IN \A k \in 1..Len(pp.segments) :
                  LET sg == pp.segments[k] IN
                  /\ (sg.kind = "Error" /\ sg.name \in ShortReadErrors) =>
                        k = Len(pp.segments) /\ pp.exceptions # <<>>
                  /\ (t_h.tag = "VarintKeyWireType" /\ sg.kind = "Field" /\ sg.name = "key"
                      /\ \/ At(data, sg.start) % 8 = 1 /\ sg.end + 8 > Len(data)
                         \/ At(data, sg.start) % 8 = 5 /\ sg.end + 4 > Len(data)
                         \/ At(data, sg.start) % 8 = 2 /\ sg.end >= Len(data)) =>
                        k = Len(pp.segments) /\ Len(pp.exceptions) = 1

\* a ParsedPdu of the parser's output carries an overflow exception
ScreenFires ==
    /\ pc = "called" /\ ~t_out.none
    /\ \E i \in 1..Len(t_out.parsed) : \E e \in 1..Len(t_out.parsed[i].exceptions) :
          IsOverflowException(t_out.parsed[i].exceptions[e])

\* C24 as stated: when the fatal-exception screen fires, the five bit fields
\* of the score (model, data, alignment gain, entropy drop, penalties) are all
\* +infinity and parse_success_ratio is 0.
C24_AllBitFieldsInfinite ==
    ScreenFires =>
        LET b == t_out.score.breakdown IN
        /\ b.mdl_model_bits = PosInf /\ b.mdl_data_bits = PosInf
        /\ b.alignment_gain_bits = PosInf /\ b.entropy_drop_bits = PosInf
        /\ b.penalties_bits = PosInf
        /\ b.parse_success_ratio.num = 0

\* C24: when the fatal-exception screen fires, the score has mdl_model_bits,
\* mdl_data_bits and penalties_bits = +infinity, the two subtracted fields
\* alignment_gain_bits and entropy_drop_bits = 0, parse_success_ratio = 0, and
\* hence total_bits = +infinity.
C24_RejectionBreakdown ==
    ScreenFires =>
        LET b == t_out.score.breakdown IN
        /\ b.mdl_model_bits = PosInf /\ b.mdl_data_bits = PosInf
        /\ b.alignment_gain_bits = Fin(0) /\ b.entropy_drop_bits = Fin(0)
        /\ b.penalties_bits = PosInf
        /\ b.parse_success_ratio.num = 0
        /\ t_out.score.total_bits = PosInf

\* the screen fired on a corpus whose other PDU parsed without any exception
C24_Witness ==
    /\ ScreenFires
    /\ Len(t_out.parsed) = 2
    /\ \E i \in 1..2 : t_out.parsed[i].exceptions = <<>> /\ IsSuccess(t_out.parsed[i])

\* the all_hypotheses of every layer: non-empty, at most top_k long, in
\* non-decreasing total_bits, and headed by the layer's own triple
TopKShape ==
    /\ \A d \in 1..Len(layers) :
          LET a == layers[d].all_hypotheses IN
          /\ a # <<>> /\ Len(a) <= engine.top_k
          /\ \A i, j \in 1..Len(a) :
                i < j => ~NumLt(a[j].score.total_bits, a[i].score.total_bits)
          /\ a[1].hypothesis = layers[d].hypothesis
          /\ a[1].score = layers[d].score
          /\ a[1].parsed = layers[d].parsed
    /\ engine.top_k = 0 => layers = <<>>

\* a new layer lists the first min(top_k, #scored) entries of the sorted list
TopKPrefix ==
    layers' # layers =>
        /\ Len(layers') = Len(layers) + 1
        /\ layers'[Len(layers')].all_hypotheses =
              [i \in 1..Min(engine.top_k, Len(scored)) |-> sorted[i]]

\* C25: the all_hypotheses of every Layer is the first min(top_k, #scored)
\* entries of the sorted candidate list: it is non-empty, at most top_k long,
\* non-decreasing in total_bits, and its first entry has the hypothesis, score
\* and parsed corpus of the Layer; with top_k = 0 no Layer is produced.
C25_TopKOfSorted == []TopKShape /\ [][TopKPrefix]_vars

\* a layer that lists ten candidates of which the last scores strictly more
\* than the first
C25_Witness ==
    /\ Len(layers) >= 1
    /\ Len(layers[1].all_hypotheses) = 10
    /\ Len(scored) > 10
    /\ NumLt(layers[1].all_hypotheses[1].score.total_bits,
             layers[1].all_hypotheses[10].score.total_bits)

\* infer returned no layer because top_k was 0 although candidates were scored
C25_WitnessZero ==
    /\ pc = "returned" /\ engine.top_k = 0 /\ scored # <<>> /\ result.layers = <<>>

\* a layer that lists fewer candidates than top_k
C25_WitnessShort ==
    /\ Len(layers) >= 1 /\ Len(layers[1].all_hypotheses) < engine.top_k

\* what C26 says of the length fields of one PDU parsed under h: lf is the
\* last segment, the last exception is the one named, and no Sdu follows
TlvOvershootStops(data, h, pp) ==
    \A k \in 1..Len(pp.segments) :
        LET sg == pp.segments[k] IN
        (sg.kind = "Field" /\ sg.name = "length") =>
            LET decoded == DecodedLength(data, sg)
                remaining == Max(0, Len(data) - sg.end)
                header_size == sg.end - (sg.start - h.len_offset + h.tag_offset)
                value_len == IF h.length_includes_header THEN decoded - header_size ELSE decoded
                last == pp.exceptions[Len(pp.exceptions)]
            IN /\ decoded > remaining + 1000 =>
                     /\ k = Len(pp.segments) /\ pp.exceptions # <<>>
                     /\ Contains(last, <<"Length", "field", "appears", "invalid">>)
               /\ (decoded <= remaining + 1000 /\ value_len > remaining) =>
                     /\ k = Len(pp.segments) /\ pp.exceptions # <<>>
                     /\ Contains(last, <<"extends", "beyond", "PDU">>)

\* a length field of the PDU claims more than the bytes that follow it
TlvOvershoots(data, h, pp) ==
    \E k \in 1..Len(pp.segments) :
        LET sg == pp.segments[k] IN
        /\ sg.kind = "Field" /\ sg.name = "length"
        /\ (IF h.length_includes_header
            THEN DecodedLength(data, sg) - (sg.end - (sg.start - h.len_offset + h.tag_offset))
            ELSE DecodedLength(data, sg)) > Max(0, Len(data) - sg.end)

\* C26: in the TLV parser a decoded length that exceeds the bytes remaining
\* after the length field by more than 1000 stops the PDU with the exception
\* "Length field appears invalid" and without an Sdu; a length that exceeds
\* them by 1 to 1000 (the header taken off first when the length counts it)
\* stops the PDU at the value bounds check with an exception containing
\* "extends beyond PDU"; in both cases the scorer rejects the hypothesis with
\* total_bits = +infinity.
C26_TlvOvershootRejected ==
    (pc = "called" /\ ~t_out.none /\ t_h.tag = "Tlv") =>
        \A i \in 1..Len(t_out.parsed) :
            LET data == CorpusPdus(buffers, corpus)[i] IN
            /\ TlvOvershootStops(data, t_h, t_out.parsed[i])
            /\ TlvOvershoots(data, t_h, t_out.parsed[i]) => t_out.score.total_bits = PosInf

\* the parser's part of C26 alone
C26_ParserPart ==
    (pc = "called" /\ ~t_out.none /\ t_h.tag = "Tlv") =>
        \A i \in 1..Len(t_out.parsed) :
            TlvOvershootStops(CorpusPdus(buffers, corpus)[i], t_h, t_out.parsed[i])

\* the elements lo+1 .. lo+n of a list, as a set
Block(list, lo, n) == {list[lo + i] : i \in 1..n}

\* the candidate list that C27 describes for a corpus whose first PDU has n1 bytes
CandidateListOf(list, n1) ==
    LET f == IF n1 < 2 THEN 0 ELSE Min(32, n1) - 1 IN
    /\ Len(list) = 30 + 4 + f + 80 + 108 + 3
    /\ Block(list, 0, 30) =
          {LengthPrefixBundle(o, w, e, FALSE) : o \in 0..4, w \in {1, 2, 4}, e \in {"Little", "Big"}}
    /\ Block(list, 30, 4) =
          {DelimiterBundle(p) : p \in {<<0, 0>>, <<10>>, <<13, 10>>, <<255, 255>>}}
    /\ \A j \in 1..f : list[34 + j] = FixedHeader(j + 1)
    /\ Block(list, 34 + f, 80) =
          {ExtensibleBitmap(st, c, v, 8) : st \in 0..4, c \in 0..7, v \in {0, 1}}
    /\ \A j \in 1..108 :
          LET h == list[114 + f + j] IN
          /\ h.tag = "Tlv" /\ h.len_rule # "IndefiniteWithEoc"
          /\ h.len_offset >= h.tag_offset + h.tag_bytes
    /\ \A j \in 1..3 : list[222 + f + j].tag = "VarintKeyWireType"
    /\ Cardinality(Block(list, 0, Len(list))) = Len(list)

\* C27: on a non-empty corpus the candidate list built by infer is, in
\* registration order, the 30 LengthPrefix hypotheses (includes_header false),
\* the 4 delimiter patterns, FixedHeader{len} for len in 2..=min(32, len(first
\* PDU)) (none when the first PDU is shorter than 2), the 80 ExtensibleBitmap
\* hypotheses with max_bytes 8, the 108 Tlv hypotheses (never IndefiniteWithEoc,
\* len_offset >= tag_offset + tag_bytes) and 3 Varint ones, without duplicate.
C27_CandidateList ==
    (pc = "fanout" /\ registry = DefaultRegistry) =>
        /\ current_corpus.items # <<>>
        /\ CandidateListOf(hypotheses, PduLen(current_corpus.items[1]))

\* the candidates of the second depth, built for an SDU corpus whose first PDU
\* is shorter than the first datagram
C27_Witness ==
    /\ pc = "fanout" /\ registry = DefaultRegistry /\ depth = 1
    /\ PduLen(current_corpus.items[1]) < PduLen(corpus.items[1])
    /\ Len(hypotheses) > 226

\* candidates built for a first PDU of more than 32 bytes: 31 FixedHeader ones
C27_WitnessCapped ==
    /\ pc = "fanout" /\ registry = DefaultRegistry
    /\ PduLen(current_corpus.items[1]) > 32 /\ Len(hypotheses) = 256

\* candidates built for a corpus whose first PDU has fewer than two bytes
C27_WitnessNoFixedHeader ==
    /\ pc = "fanout" /\ registry = DefaultRegistry /\ Len(hypotheses) = 225

\* parsed has one ParsedPdu per PDU of c, each with its segments inside its PDU
OnePerPdu(parsed, c) ==
    /\ Len(parsed) = Len(c.items)
    /\ \A j \in 1..Len(parsed) : \A k \in 1..Len(parsed[j].segments) :
          LET sg == parsed[j].segments[k] IN
          0 <= sg.start /\ sg.start <= sg.end /\ sg.end <= PduLen(c.items[j])

\* every layer but the last has a non-empty SDU corpus, which the next layer
\* parsed PDU by PDU; while depth d is analysed the d layers before it exist
LayersChain ==
    /\ \A d \in 1..Len(layers) :
          /\ d < Len(layers) =>
                /\ layers[d].sdu_corpus.some
                /\ layers[d].sdu_corpus.corpus.items # <<>>
          /\ OnePerPdu(layers[d].parsed, ParentCorpus(d))
    /\ pc \in {"fanout", "sort", "select"} =>
          /\ Len(layers) = depth
          /\ depth >= 1 =>
                /\ layers[depth].sdu_corpus.some
                /\ current_corpus = layers[depth].sdu_corpus.corpus
    /\ pc = "returned" => result.layers = layers

\* the depth grows by one, in the step that emits the layer of that depth
DepthAfterLayer ==
    depth' # depth =>
        /\ depth' = depth + 1
        /\ Len(layers') = depth'
        /\ SubSeq(layers', 1, depth) = layers

\* C28: in result.layers every layer except possibly the last has a present,
\* non-empty sdu_corpus; the parsed field of layers[i] has exactly one
\* ParsedPdu per PDU, in order, of the corpus analysed at depth i (the input
\* corpus for i = 0, layers[i-1].sdu_corpus after it); depth i+1 is analysed
\* only after layer i has been emitted.
C28_LayerChain == []LayersChain /\ [][DepthAfterLayer]_vars

\* infer returned two layers, the second parsed over an SDU corpus that has
\* more PDUs than the input corpus
C28_Witness ==
    /\ pc = "returned" /\ Len(result.layers) >= 2
    /\ Len(result.layers[2].parsed) > Len(corpus.items)

\* a pass of a parser's loop breaks out of it or leaves pos larger than it was
LoopProgress ==
    t_out' # t_out => (t_out'.stop \/ t_out'.pos > t_out.pos)

\* no more passes than the PDU has bytes, and pos stays inside the PDU
IterationsBounded ==
    pc \in {"iterate", "parsed"} =>
        /\ t_out.iterations <= Len(LoopData)
        /\ t_out.pos <= Len(LoopData)

\* C29: for every PDU and every hypothesis of the default generators, each
\* iteration of the per-PDU loop of the LengthPrefix, Delimiter, TLV and
\* Varint parsers stops the PDU or strictly increases pos, so the PDU is
\* parsed after at most len(pdu) iterations, zero-length messages and TLVs
\* whose length counts the header included.
C29_LoopsProgress == []IterationsBounded /\ [][LoopProgress]_vars

\* a TLV loop left at the end of the PDU after two passes or more, each over
\* a TLV whose length counts its header
C29_Witness ==
    /\ pc = "parsed" /\ t_h.tag = "Tlv" /\ t_h.length_includes_header
    /\ ~t_out.stop /\ t_out.iterations >= 2 /\ t_out.pos = Len(LoopData)

\* a TLV whose length is its header alone: a pass without an Sdu that goes on
C29_WitnessEmptyValue ==
    /\ pc = "parsed" /\ t_h.tag = "Tlv" /\ t_h.length_includes_header
    /\ ~t_out.stop /\ t_out.iterations >= 1
    /\ \A k \in 1..Len(t_out.segments) : t_out.segments[k].kind # "Sdu"

\* a LengthPrefix loop that took one pass per byte: zero-length messages only
C29_WitnessZeroLength ==
    /\ pc = "parsed" /\ t_h.tag = "LengthPrefixBundle"
    /\ ~t_out.stop /\ Len(LoopData) = 3 /\ t_out.iterations = 3

\* every length field of the parsed PDU is followed by an Sdu of exactly the
\* length it holds, or by none when it holds 0
LengthIsPayload(data, h, pp) ==
    \A k \in 1..Len(pp.segments) :
        LET sg == pp.segments[k] IN
        (sg.kind = "Field" /\ sg.name = "length") =>
            LET len == ReadLength(data, sg.end - h.width, h.width, h.endian) IN
            IF k < Len(pp.segments) /\ pp.segments[k + 1].kind = "Sdu"
            THEN pp.segments[k + 1].start = sg.end /\ SegLen(pp.segments[k + 1]) = len
            ELSE len = 0

\* C30: the output of the LengthPrefix parser does not depend on
\* includes_header: for every corpus and (offset, width, endian), parsing with
\* includes_header = true gives the ParsedCorpus that includes_header = false
\* gives, the decoded length being the payload length without the header.
C30_IncludesHeaderIgnored ==
    (pc = "called" /\ ~t_out.none /\ t_h.includes_header) =>
        /\ t_out.parsed = ParseCorpus("LengthPrefixParser", CorpusPdus(buffers, corpus),
                                      [t_h EXCEPT !.includes_header = FALSE])
        /\ \A i \in 1..Len(t_out.parsed) :
              LengthIsPayload(CorpusPdus(buffers, corpus)[i], t_h, t_out.parsed[i])

\* with includes_header set, a message whose length field holds less than the
\* header's size is parsed with a payload of that length, then a second one
C30_Witness ==
    /\ pc = "called" /\ ~t_out.none /\ t_h.includes_header
    /\ t_h.offset = 0 /\ t_h.width = 1
    /\ Len(t_out.parsed) = 1 /\ t_out.parsed[1].exceptions = <<>>
    /\ Len(SelectSeq(t_out.parsed[1].segments, LAMBDA sg : sg.kind = "Sdu")) = 2

====
